---- MODULE Spec2Model ----
(***************************************************************************)
(* Model of db_sensitive_audit/database_auditor.py (class DatabaseAuditor): *)
(* the rule store, the classifier identify_sensitive_info, the             *)
(* confirmation policy confirm_sensitive_data, the per-table loop of       *)
(* get_table_info and the aggregator _generate_audit_summary.              *)
(*                                                                         *)
(* Text is modelled as a sequence of one-character strings, so that        *)
(* str.strip, str.lower, slicing, substring containment and re.match are   *)
(* computed on the characters.  The Chinese literals of the source are     *)
(* written with ASCII names:                                               *)
(*   "yes" = '是'   "no" = '否'   "high" = '高'  "medium" = '中'            *)
(*   "low" = '低'   "sensitive_info" = '敏感信息'                           *)
(*   "privilege_risk" = '权限风险'  "user_privileges" = '用户权限'          *)
(*   "phone_number" = '手机号'                                              *)
(***************************************************************************)
EXTENDS Integers, Sequences, FiniteSets, TLC

----------------------------------------------------------------------------
(* Text helpers *)

Rep(c, n) == [i \in 1..n |-> c]

Digits == {"0", "1", "2", "3", "4", "5", "6", "7", "8", "9"}

LowerLetters == {"a", "b", "c", "d", "e", "h", "i", "l", "k", "m", "n", "o", "p", "s", "t"}

Whitespace == {" ", "\t", "\n"}

ToLower == ("P" :> "p") @@ ("T" :> "t") @@ ("E" :> "e") @@ ("S" :> "s") @@ ("H" :> "h") @@ ("O" :> "o") @@ ("N" :> "n")

\* str.lower()
lower(s) == [i \in 1..Len(s) |-> IF s[i] \in DOMAIN ToLower THEN ToLower[s[i]] ELSE s[i]]

\* index of the first character at or after i that is not whitespace
RECURSIVE FirstKept(_, _)
FirstKept(s, i) ==
    IF i > Len(s) THEN i
    ELSE IF s[i] \in Whitespace THEN FirstKept(s, i + 1) ELSE i

\* index of the last character at or before i that is not whitespace
RECURSIVE LastKept(_, _)
LastKept(s, i) ==
    IF i < 1 THEN i
    ELSE IF s[i] \in Whitespace THEN LastKept(s, i - 1) ELSE i

\* str.strip()
strip(s) == SubSeq(s, FirstKept(s, 1), LastKept(s, Len(s)))

\* Python's "sub in s" on strings
contains(sub, s) ==
    \E i \in 0..(Len(s) - Len(sub)) : SubSeq(s, i + 1, i + Len(sub)) = sub

Ellipsis == <<".", ".", ".">>

----------------------------------------------------------------------------
(* Regular expressions.  A pattern is a record                             *)
(*   [ok, items, dollar]                                                   *)
(* ok = FALSE is a pattern re.compile rejects (re.error); items is a       *)
(* sequence of [set, min, open]: a character class repeated               *)
(* exactly min times (x{n}), or min or more times when open (x+, x{n,});   *)
(* dollar says whether the pattern ends in $.  The leading ^ is redundant  *)
(* under re.match, which anchors at the start of the string.               *)

Times(set, n) == [set |-> set, min |-> n, open |-> FALSE]

Plus(set) == [set |-> set, min |-> 1, open |-> TRUE]

Regex(items, dollar) == [ok |-> TRUE, items |-> items, dollar |-> dollar]

\* a pattern re rejects, such as an unbalanced "[0-9"
BadRegex == [ok |-> FALSE, items |-> <<>>, dollar |-> FALSE]

\* how many characters of s, from position pos on, lie in set
Run(set, s, pos) ==
    LET stop == CHOOSE j \in pos..(Len(s) + 1) :
                    /\ j = Len(s) + 1 \/ s[j] \notin set
                    /\ \A k \in pos..(j - 1) : s[k] \in set
    IN  stop - pos

\* whether items k.. of the pattern match s from position pos on
RECURSIVE MatchFrom(_, _, _, _)
MatchFrom(pattern, k, s, pos) ==
    IF k > Len(pattern.items)
    THEN (pattern.dollar => pos = Len(s) + 1)
    ELSE LET it == pattern.items[k]
             run == Run(it.set, s, pos)
             hi == IF it.open THEN run ELSE IF run >= it.min THEN it.min ELSE 0
         IN  /\ run >= it.min
             /\ \E n \in it.min..hi : MatchFrom(pattern, k + 1, s, pos + n)

\* re.match(pattern, s) is not None, for a well-formed pattern
re_match(pattern, s) == MatchFrom(pattern, 1, s, 1)

\* the try/except re.error around re.match: a malformed pattern is skipped
TryMatch(pattern, s) == pattern.ok /\ re_match(pattern, s)

----------------------------------------------------------------------------
(* Rule store *)

NoneValue == [type |-> "None", s |-> <<>>]

StrValue(s) == [type |-> "str", s |-> s]

IntValue(s) == [type |-> "int", s |-> s]

\* str(value), for a value that is not None
str(value) == value.s

Rule(name, keywords, patterns) ==
    [name |-> name, field_keywords |-> keywords, regex_patterns |-> patterns]

\* "^1[3-9]\d{9}$"
PhonePattern ==
    Regex(<<Times({"1"}, 1), Times({"3", "4", "5", "6", "7", "8", "9"}, 1), Times(Digits, 9)>>, TRUE)

\* "^[a-z0-9.]+@[a-z0-9.]+$"
EmailPattern ==
    Regex(<<Plus(LowerLetters \cup Digits \cup {"."}), Times({"@"}, 1),
            Plus(LowerLetters \cup Digits \cup {"."})>>, TRUE)

\* "^[a-z.]+$"
TokenPattern == Regex(<<Plus(LowerLetters \cup {"."})>>, TRUE)

\* "^\d{6}"
IdCardPattern == Regex(<<Times(Digits, 6)>>, FALSE)

kw_phone == <<"p", "h", "o", "n", "e">>

kw_mobile == <<"m", "o", "b", "i", "l", "e">>

kw_telephone == <<"t", "e", "l", "e", "p", "h", "o", "n", "e">>

kw_mail == <<"m", "a", "i", "l">>

kw_token == <<"t", "o", "k", "e", "n">>

kw_id == <<"i", "d">>

tp_test == <<"t", "e", "s", "t">>

tp_demo == <<"d", "e", "m", "o">>

tp_example == <<"e", "x", "a", "m", "p", "l", "e">>

tp_sample == <<"s", "a", "m", "p", "l", "e">>

tp_fake == <<"f", "a", "k", "e">>

_get_default_rules ==
    [sensitive_rules |-> <<Rule("phone_number", <<kw_phone, kw_mobile, kw_telephone>>, <<PhonePattern>>)>>,
     settings |-> [enabled_rules |-> {"phone_number"},
                   case_sensitive |-> FALSE,
                   max_field_length |-> 100,
                   exclude_test_data |-> TRUE,
                   test_patterns |-> <<tp_test, tp_demo, tp_example, tp_sample, tp_fake>>]]

\* A config/sensitive_rules.json with several categories, one of them
\* (id_card) defined but not enabled, and a malformed first e-mail pattern.
RulesFileA ==
    [sensitive_rules |-> <<Rule("phone_number", <<kw_phone, kw_mobile>>, <<PhonePattern>>),
                           Rule("email", <<kw_mail>>, <<BadRegex, EmailPattern>>),
                           Rule("token", <<kw_token>>, <<TokenPattern>>),
                           Rule("id_card", <<kw_id>>, <<IdCardPattern>>)>>,
     settings |-> [enabled_rules |-> {"phone_number", "email", "token"},
                   case_sensitive |-> FALSE,
                   max_field_length |-> 100,
                   exclude_test_data |-> TRUE,
                   test_patterns |-> <<tp_test, tp_demo>>]]

\* A config/sensitive_rules.json that is case sensitive, keeps test data and
\* considers short values only.
RulesFileB ==
    [sensitive_rules |-> <<Rule("token", <<kw_token>>, <<TokenPattern>>),
                           Rule("phone_number", <<kw_phone>>, <<PhonePattern>>)>>,
     settings |-> [enabled_rules |-> {"phone_number", "token"},
                   case_sensitive |-> TRUE,
                   max_field_length |-> 12,
                   exclude_test_data |-> FALSE,
                   test_patterns |-> <<tp_test>>]]

\* What config/sensitive_rules.json can be when it is read: absent, present
\* but not readable (open raises), not parseable as JSON (json.load raises),
\* or one of the two files above.
RuleFiles == {"absent", "unreadable", "malformed", "A", "B"}

\* an exception leaving a function
Raised(e) == [raised |-> e]

VARIABLES
    rules_file,          \* config/sensitive_rules.json
    cl_pc,               \* classifier calls: "idle", "identified", "confirmed"
    cl_rules_file,       \* config/sensitive_rules.json as identify_sensitive_info read it
    cl_columns,          \* identify_sensitive_info: argument columns
    cl_record,           \* identify_sensitive_info: argument record
    cl_info,             \* identify_sensitive_info: returned mapping
    cl_confirmed,        \* confirm_sensitive_data: returned verdict
    au_pc,               \* audit_datasource: "users", "databases", "tables", "report", "done"
    user_rows,           \* the rows the server returned for the query on mysql.user
    users,               \* audit_datasource: users, as get_database_users returned them
    show_databases,      \* what the server answered to SHOW DATABASES
    databases,           \* audit_datasource: databases, as get_databases returned them
    databases_info,      \* audit_datasource: databases_info, in insertion order
    server_tables,       \* the tables the server has shown for the database being read
    table_info,          \* get_table_info: table_info
    sensitive_info_json, \* get_table_info: local sensitive_info_json
    sensitive_confirmed, \* get_table_info: local sensitive_confirmed
    generated,           \* _generate_audit_summary: audit_results before the sort
    audit_results,       \* _generate_audit_summary: returned list
    config_lines,        \* audit_multiple_datasources: the lines of the argument config_text
    md_pc,               \* audit_multiple_datasources: "start", "loop", "try", "returned", "raised"
    datasources,         \* audit_multiple_datasources: datasources
    md_servers,          \* what the server of each datasource audited so far did
    connections,         \* audit_datasource: connection, for each datasource audited so far
    excel_files,         \* audit_multiple_datasources: excel_files
    app_pc,              \* App.run: "start", "handle", "returned", "raised"
    app_args,            \* App.run: argument args
    app_help,            \* whether App.run has called show_help
    app_parsed,          \* App.run: what parser.parse_args(args) did
    app_env,             \* what handle_audit_command met outside the program
    app_audit            \* whether audit_multiple_datasources has been called

cl_vars == <<cl_pc, cl_rules_file, cl_columns, cl_record, cl_info, cl_confirmed>>

au_vars ==
    <<au_pc, user_rows, users, show_databases, databases, databases_info, server_tables, table_info,
      sensitive_info_json, sensitive_confirmed, generated, audit_results>>

md_vars == <<config_lines, md_pc, datasources, md_servers, connections, excel_files>>

app_vars == <<app_pc, app_args, app_help, app_parsed, app_env, app_audit>>

vars == <<rules_file, cl_vars, au_vars, md_vars, app_vars>>

\* load_sensitive_rules without the handler "except Exception"
load_sensitive_rules_NoHandler ==
    CASE rules_file = "A" -> RulesFileA
      [] rules_file = "B" -> RulesFileB
      [] rules_file = "absent" -> _get_default_rules
      [] rules_file = "unreadable" -> Raised("PermissionError")
      [] OTHER -> Raised("JSONDecodeError")

\* load_sensitive_rules: the parsed file, or the default rules when the file
\* is absent, cannot be opened or does not parse
load_sensitive_rules ==
    CASE rules_file = "A" -> RulesFileA
      [] rules_file = "B" -> RulesFileB
      [] OTHER -> _get_default_rules

----------------------------------------------------------------------------
(* Classifier: identify_sensitive_info *)

DisplayCap == 50

\* FieldMatch folding the case whatever the setting case_sensitive
FieldMatch_AlwaysFolded(settings, rule, column) ==
    \E k \in 1..Len(rule.field_keywords) :
        contains(lower(rule.field_keywords[k]), lower(column))

\* is_field_match: some keyword is a substring of the column name
FieldMatch(settings, rule, column) ==
    LET column_check == IF ~settings.case_sensitive THEN lower(column) ELSE column
    IN  \E k \in 1..Len(rule.field_keywords) :
            LET keyword == rule.field_keywords[k]
                keyword_check == IF ~settings.case_sensitive THEN lower(keyword) ELSE keyword
            IN  contains(keyword_check, column_check)

\* the test-data exclusion
IsTestData(settings, str_value) ==
    /\ settings.exclude_test_data
    /\ \E k \in 1..Len(settings.test_patterns) :
          contains(lower(settings.test_patterns[k]), lower(str_value))

\* TooLong rejecting also a value of exactly the maximum length
TooLong_AtMaximum(settings, str_value) == Len(str_value) >= settings.max_field_length

\* the length limit
TooLong(settings, str_value) == Len(str_value) > settings.max_field_length

\* the two "continue" statements that drop the column for this category
Rejected(settings, str_value) ==
    IsTestData(settings, str_value) \/ TooLong(settings, str_value)

\* is_value_match: some pattern matches the trimmed value
ValueMatch(rule, str_value) ==
    \E k \in 1..Len(rule.regex_patterns) : TryMatch(rule.regex_patterns[k], str_value)

\* display_value without the cut at 50 characters
display_value_NoCap(value) ==
    IF value.type # "None" THEN StrValue(strip(str(value))) ELSE NoneValue

\* display_value
display_value(value) ==
    IF value.type # "None"
    THEN LET d == strip(str(value))
         IN  StrValue(IF Len(d) > DisplayCap THEN SubSeq(d, 1, DisplayCap) \o Ellipsis ELSE d)
    ELSE NoneValue

Match(column, value, fm, vm) ==
    [column |-> column, value |-> value, field_match |-> fm, value_match |-> vm]

\* sensitive_info[rule_name][column] = m on the insertion-ordered mapping
\* (a sequence of [rule_name, fields], fields a sequence of matches)
Put(info, rule_name, m) ==
    LET SetField(fields) ==
            IF \E k \in 1..Len(fields) : fields[k].column = m.column
            THEN [k \in 1..Len(fields) |-> IF fields[k].column = m.column THEN m ELSE fields[k]]
            ELSE Append(fields, m)
    IN  IF \E c \in 1..Len(info) : info[c].rule_name = rule_name
        THEN [c \in 1..Len(info) |->
                IF info[c].rule_name = rule_name
                THEN [info[c] EXCEPT !.fields = SetField(info[c].fields)]
                ELSE info[c]]
        ELSE Append(info, [rule_name |-> rule_name, fields |-> <<m>>])

\* ClassifyPair with the test-data and length checks suppressing only the
\* value match, the field-name match still being recorded
ClassifyPair_KeepFieldMatch(rules_config, column, value, rule, info) ==
    LET settings == rules_config.settings
        str_value == strip(str(value))
        rejected == value.type # "None" /\ Rejected(settings, str_value)
        is_field_match == FieldMatch(settings, rule, column)
        is_value_match == value.type # "None" /\ ~rejected /\ ValueMatch(rule, str_value)
    IN  IF rule.name \notin settings.enabled_rules THEN info
        ELSE IF is_field_match \/ is_value_match
             THEN Put(info, rule.name, Match(column, display_value(value), is_field_match, is_value_match))
             ELSE info

\* ClassifyPair with the value patterns tested only when the field name
\* did not match
ClassifyPair_ValueOnlyIfNoField(rules_config, column, value, rule, info) ==
    LET settings == rules_config.settings
        str_value == strip(str(value))
        is_field_match == FieldMatch(settings, rule, column)
        is_value_match == ~is_field_match /\ value.type # "None" /\ ValueMatch(rule, str_value)
    IN  IF rule.name \notin settings.enabled_rules THEN info
        ELSE IF value.type # "None" /\ Rejected(settings, str_value) THEN info
        ELSE IF is_field_match \/ is_value_match
             THEN Put(info, rule.name, Match(column, display_value(value), is_field_match, is_value_match))
             ELSE info

\* ClassifyPair without the test "rule_name not in enabled_rules"
ClassifyPair_IgnoreEnabled(rules_config, column, value, rule, info) ==
    LET settings == rules_config.settings
        str_value == strip(str(value))
        is_field_match == FieldMatch(settings, rule, column)
        is_value_match == value.type # "None" /\ ValueMatch(rule, str_value)
    IN  IF value.type # "None" /\ Rejected(settings, str_value) THEN info
        ELSE IF is_field_match \/ is_value_match
             THEN Put(info, rule.name, Match(column, display_value(value), is_field_match, is_value_match))
             ELSE info

\* ClassifyPair recording a pair only when the field name matched
ClassifyPair_FieldMatchRequired(rules_config, column, value, rule, info) ==
    LET settings == rules_config.settings
        str_value == strip(str(value))
        is_field_match == FieldMatch(settings, rule, column)
        is_value_match == value.type # "None" /\ ValueMatch(rule, str_value)
    IN  IF rule.name \notin settings.enabled_rules THEN info
        ELSE IF value.type # "None" /\ Rejected(settings, str_value) THEN info
        ELSE IF is_field_match
             THEN Put(info, rule.name, Match(column, display_value(value), is_field_match, is_value_match))
             ELSE info

\* one pass of the inner loop body: column i against rule j
ClassifyPair(rules_config, column, value, rule, info) ==
    LET settings == rules_config.settings
        str_value == strip(str(value))
        is_field_match == FieldMatch(settings, rule, column)
        is_value_match == value.type # "None" /\ ValueMatch(rule, str_value)
    IN  IF rule.name \notin settings.enabled_rules THEN info
        ELSE IF value.type # "None" /\ Rejected(settings, str_value) THEN info
        ELSE IF is_field_match \/ is_value_match
             THEN Put(info, rule.name, Match(column, display_value(value), is_field_match, is_value_match))
             ELSE info

\* the loops "for i, column in enumerate(columns)" and "for rule_name, rule_config in rules.items()"
RECURSIVE ClassifyLoop(_, _, _, _, _, _)
ClassifyLoop(rules_config, columns, record, i, j, info) ==
    IF i > Len(columns) THEN info
    ELSE IF j > Len(rules_config.sensitive_rules)
         THEN ClassifyLoop(rules_config, columns, record, i + 1, 1, info)
         ELSE ClassifyLoop(rules_config, columns, record, i, j + 1,
                           ClassifyPair(rules_config, columns[i], record[i],
                                        rules_config.sensitive_rules[j], info))

\* Identify pairing columns and values as zip() does, up to the shorter of
\* the two, instead of returning early on a length mismatch
Identify_Zip(rules_config, columns, record) ==
    LET n == IF Len(record) < Len(columns) THEN Len(record) ELSE Len(columns)
    IN  ClassifyLoop(rules_config, SubSeq(columns, 1, n), SubSeq(record, 1, n), 1, 1, <<>>)

\* identify_sensitive_info under a given rule configuration
Identify(rules_config, columns, record) ==
    IF Len(record) = 0 \/ Len(record) # Len(columns)
    THEN <<>>
    ELSE ClassifyLoop(rules_config, columns, record, 1, 1, <<>>)

identify_sensitive_info(columns, record) == Identify(load_sensitive_rules, columns, record)

----------------------------------------------------------------------------
(* Confirmation policy: confirm_sensitive_data *)

\* rules[rule_name] of the mapping "sensitive_rules"
RuleNamed(rules_config, rule_name) ==
    LET rs == rules_config.sensitive_rules
    IN  rs[CHOOSE j \in 1..Len(rs) : rs[j].name = rule_name]

HasRule(rules_config, rule_name) ==
    \E j \in 1..Len(rules_config.sensitive_rules) : rules_config.sensitive_rules[j].name = rule_name

\* "for pattern in regex_patterns": TRUE when the loop returns "yes"
RECURSIVE ConfirmPatterns(_, _, _)
ConfirmPatterns(regex_patterns, k, str_value) ==
    IF k > Len(regex_patterns) THEN FALSE
    ELSE IF TryMatch(regex_patterns[k], str_value) THEN TRUE
    ELSE ConfirmPatterns(regex_patterns, k + 1, str_value)

\* "for field_name, field_info in detected_fields.items()"
RECURSIVE ConfirmFields(_, _, _)
ConfirmFields(regex_patterns, fields, f) ==
    IF f > Len(fields) THEN FALSE
    ELSE IF fields[f].value.type = "None" THEN ConfirmFields(regex_patterns, fields, f + 1)
    ELSE IF ConfirmPatterns(regex_patterns, 1, strip(str(fields[f].value))) THEN TRUE
    ELSE ConfirmFields(regex_patterns, fields, f + 1)

\* "for rule_name, detected_fields in sensitive_info.items()"
RECURSIVE ConfirmRules(_, _, _)
ConfirmRules(rules_config, sensitive_info, c) ==
    IF c > Len(sensitive_info) THEN FALSE
    ELSE IF ~HasRule(rules_config, sensitive_info[c].rule_name)
         THEN ConfirmRules(rules_config, sensitive_info, c + 1)
    ELSE IF ConfirmFields(RuleNamed(rules_config, sensitive_info[c].rule_name).regex_patterns,
                          sensitive_info[c].fields, 1)
         THEN TRUE
    ELSE ConfirmRules(rules_config, sensitive_info, c + 1)

Confirm(rules_config, sensitive_info) ==
    IF Len(sensitive_info) = 0 THEN "no"
    ELSE IF ConfirmRules(rules_config, sensitive_info, 1) THEN "yes" ELSE "no"

\* what load_sensitive_rules returns when config/sensitive_rules.json is file
RulesOfFile(file) ==
    CASE file = "A" -> RulesFileA
      [] file = "B" -> RulesFileB
      [] OTHER -> _get_default_rules

\* confirm_sensitive_data validating against the rule set that
\* identify_sensitive_info had loaded
confirm_sensitive_data_Snapshot(sensitive_info) == Confirm(RulesOfFile(cl_rules_file), sensitive_info)

confirm_sensitive_data(sensitive_info) == Confirm(load_sensitive_rules, sensitive_info)

----------------------------------------------------------------------------
(* Calls of the classifier and of the confirmation policy *)

MaxColumns == 2

MaxRecordLen == 2

col_id == <<"i", "d">>

col_phone == <<"p", "h", "o", "n", "e">>

col_PHONE == <<"P", "H", "O", "N", "E">>

col_email == <<"e", "m", "a", "i", "l">>

col_token == <<"t", "o", "k", "e", "n">>

ColumnNames == {col_id, col_phone, col_PHONE, col_email, col_token}

\* '13812345678'
v_phone == StrValue(<<"1", "3", "8", "1", "2", "3", "4", "5", "6", "7", "8">>)

\* ' 13912345678\n'
v_phone_padded == StrValue(<<" ", "1", "3", "9", "1", "2", "3", "4", "5", "6", "7", "8", "\n">>)

\* '+8613912345678'
v_phone_plus == StrValue(<<"+", "8", "6", "1", "3", "9", "1", "2", "3", "4", "5", "6", "7", "8">>)

\* 'test@a.co'
v_test_mail == StrValue(<<"t", "e", "s", "t", "@", "a", ".", "c", "o">>)

\* 'TEST'
v_TEST == StrValue(<<"T", "E", "S", "T">>)

\* 'a' * 50 + '1'
v_long51 == StrValue(Rep("a", 50) \o <<"1">>)

\* 'a' * 100 + '1'
v_long101 == StrValue(Rep("a", 100) \o <<"1">>)

\* 'a@b.co'
v_mail == StrValue(<<"a", "@", "b", ".", "c", "o">>)

\* 'a' * 12
v_token12 == StrValue(Rep("a", 12))

\* 'a' * 50 + '@b'
v_long_mail == StrValue(Rep("a", 50) \o <<"@", "b">>)

Values ==
    {NoneValue, IntValue(<<"1">>), v_phone, v_phone_padded, v_phone_plus,
     v_test_mail, v_TEST, v_long51, v_mail, v_token12, v_long_mail}

SeqsUpTo(S, n) == UNION {[1..k -> S] : k \in 0..n}

IsInjective(q) == \A a, b \in 1..Len(q) : q[a] = q[b] => a = b

\* column lists as DESCRIBE returns them: no name twice
ColumnLists == {q \in SeqsUpTo(ColumnNames, MaxColumns) : IsInjective(q)}

Records == SeqsUpTo(Values, MaxRecordLen)

InitClassifier ==
    /\ cl_pc = "idle"
    /\ cl_rules_file = "none"
    /\ cl_columns = <<>>
    /\ cl_record = <<>>
    /\ cl_info = <<>>
    /\ cl_confirmed = "none"

\* a call identify_sensitive_info(columns, record)
IdentifyCall ==
    /\ cl_pc = "idle"
    /\ \E columns \in ColumnLists, record \in Records :
          /\ cl_columns' = columns
          /\ cl_record' = record
          /\ cl_info' = identify_sensitive_info(columns, record)
    /\ cl_pc' = "identified"
    /\ cl_rules_file' = rules_file
    /\ cl_confirmed' = "none"
    /\ UNCHANGED <<app_vars, md_vars, rules_file, au_vars>>

\* a call confirm_sensitive_data(sensitive_info) on the mapping just returned
ConfirmCall ==
    /\ cl_pc = "identified"
    /\ cl_confirmed' = confirm_sensitive_data(cl_info)
    /\ cl_pc' = "confirmed"
    /\ UNCHANGED <<app_vars, md_vars, rules_file, cl_rules_file, cl_columns, cl_record, cl_info, au_vars>>

\* config/sensitive_rules.json is replaced, created or removed between the
\* call of identify_sensitive_info and the call of confirm_sensitive_data
ReplaceRulesFile ==
    /\ cl_pc = "identified"
    /\ rules_file' \in RuleFiles \ {rules_file}
    /\ UNCHANGED <<app_vars, md_vars, cl_vars, au_vars>>

----------------------------------------------------------------------------
(* get_table_info: one iteration of "for table in tables" *)

SampleCap == 100

\* a JSON text: "object" holds a mapping, "error" is '{"error": ...}';
\* "unbound" is a local variable that no statement has assigned yet
JsonObject(v) == [kind |-> "object", val |-> v]

JsonError == [kind |-> "error", val |-> <<>>]

Unbound == [kind |-> "unbound", val |-> <<>>]

\* json.loads(text)
json_loads(text) == text.val

\* the entry of column_value_dict for one value
ColumnValue(value) ==
    IF value.type = "None" \/ value.type = "int" THEN value
    ELSE StrValue(IF Len(str(value)) > SampleCap
                  THEN SubSeq(str(value), 1, SampleCap) \o Ellipsis
                  ELSE str(value))

\* column_value_dict of a sampled record
column_value_dict(columns, record) ==
    LET n == IF Len(record) < Len(columns) THEN Len(record) ELSE Len(columns)
    IN  [i \in 1..n |-> [column |-> columns[i], value |-> ColumnValue(record[i])]]

\* {column: None for column in columns}
empty_dict(columns) == [i \in 1..Len(columns) |-> [column |-> columns[i], value |-> NoneValue]]

\* empty_record holding an empty string for every column
empty_record_EmptyStrings(columns) == [i \in 1..Len(columns) |-> StrValue(<<>>)]

\* tuple([None] * len(columns))
empty_record(columns) == [i \in 1..Len(columns) |-> NoneValue]

TableResult(name, cvj, sij, sc, total) ==
    [name |-> name, column_values |-> cvj, sensitive_info |-> sij,
     confirmed |-> sc, total_count |-> total]

\* the record appended by the handler "except Exception as e" of the table
ErrorResult(name) == TableResult(name, JsonError, JsonError, "no", 0)

\* What the server answers for one table: the columns DESCRIBE lists, the
\* statement that raises (if any), COUNT(*), and the row SELECT returns
\* (<<>> when fetchone() returns None).
Table(columns, fail, total_count, record) ==
    [columns |-> columns, fail |-> fail, total_count |-> total_count, record |-> record]

\* The body of the loop for one table: the record appended to table_info and
\* the values the locals sensitive_info_json and sensitive_confirmed have
\* afterwards.  The locals are assigned in the sampling branch, in its
\* exception handler and in the empty-table branch only, so that they keep
\* the values of an earlier iteration otherwise.
TableStep(name, t, sij, sc) ==
    LET sampled == t.total_count > 0 /\ Len(t.columns) > 0
        info == IF sampled
                THEN identify_sensitive_info(t.columns, t.record)
                ELSE identify_sensitive_info(t.columns, empty_record(t.columns))
        cvj == IF sampled /\ t.fail = "sample" THEN JsonError
               ELSE IF sampled /\ Len(t.record) > 0 THEN JsonObject(column_value_dict(t.columns, t.record))
               ELSE IF ~sampled /\ Len(t.columns) > 0 THEN JsonObject(empty_dict(t.columns))
               ELSE JsonObject(<<>>)
        assigns == IF sampled THEN t.fail = "sample" \/ Len(t.record) > 0 ELSE Len(t.columns) > 0
        sij2 == IF ~assigns THEN sij
                ELSE IF sampled /\ t.fail = "sample" THEN JsonError
                ELSE JsonObject(info)
        sc2 == IF ~assigns THEN sc
               ELSE IF sampled /\ t.fail = "sample" THEN "no"
               ELSE confirm_sensitive_data(info)
    IN  IF t.fail \in {"describe", "count"}
        THEN [result |-> ErrorResult(name), json |-> sij, confirmed |-> sc]
        ELSE IF sij2.kind = "unbound"
        THEN [result |-> ErrorResult(name), json |-> sij2, confirmed |-> sc2]
        ELSE [result |-> TableResult(name, cvj, sij2, sc2, t.total_count),
              json |-> sij2, confirmed |-> sc2]

----------------------------------------------------------------------------
(* get_database_users, get_databases *)

\* The columns of the query on mysql.user, under the names of the server:
\* the source aliases them '用户名', '主机', '查询权限' (SELECT_priv),
\* '插入权限' (INSERT_priv), '更新权限' (UPDATE_priv), '删除权限' (DELETE_priv),
\* '删除权限_表' (DROP_priv), '重载权限' (RELOAD_priv), '关闭权限'
\* (SHUTDOWN_priv), '进程权限' (PROCESS_priv), '文件权限' (FILE_priv),
\* '授权权限' (GRANT_priv), '超级权限' (SUPER_priv), '复制从权限'
\* (REPL_SLAVE_priv), '复制客户端权限' (REPL_CLIENT_priv), ...
PrivColumns ==
    {"SELECT_priv", "INSERT_priv", "UPDATE_priv", "DELETE_priv", "CREATE_priv",
     "DROP_priv", "RELOAD_priv", "SHUTDOWN_priv", "PROCESS_priv", "FILE_priv",
     "GRANT_priv", "REFERENCES_priv", "INDEX_priv", "ALTER_priv", "SHOW_DB_priv",
     "SUPER_priv", "CREATE_TMP_TABLE_priv", "LOCK_TABLES_priv", "EXECUTE_priv",
     "REPL_SLAVE_priv", "REPL_CLIENT_priv"}

UserColumns == {"User", "Host"} \cup PrivColumns

\* a row of mysql.user
UserRow(user, host, granted) ==
    [c \in UserColumns |->
        IF c = "User" THEN user
        ELSE IF c = "Host" THEN host
        ELSE IF c \in granted THEN "Y" ELSE "N"]

\* rows of mysql.user, in the order of "ORDER BY User, Host"
ServerUsers ==
    <<UserRow("app", "%", {"SELECT_priv", "INSERT_priv"}),
      UserRow("backup", "localhost", {"RELOAD_priv", "PROCESS_priv", "SELECT_priv"}),
      UserRow("N", "localhost", {"SELECT_priv"}),
      UserRow("repl", "%", {"REPL_SLAVE_priv"}),
      UserRow("root", "%", {"SUPER_priv", "FILE_priv", "SELECT_priv"})>>

MaxUsers == 2

\* the subsequence of q at the positions in idx
RECURSIVE Pick(_, _, _)
Pick(q, idx, i) ==
    IF i > Len(q) THEN <<>>
    ELSE (IF i \in idx THEN <<q[i]>> ELSE <<>>) \o Pick(q, idx, i + 1)

\* what cursor.fetchall() can return for the query on mysql.user
UserRowLists ==
    {Pick(ServerUsers, idx, 1) :
        idx \in {x \in SUBSET (1..Len(ServerUsers)) : Cardinality(x) <= MaxUsers}}

\* the conversion of 'Y' and 'N' to '是' and '否', applied to every column
ConvertRow(row) ==
    [c \in DOMAIN row |-> IF row[c] = "Y" THEN "yes" ELSE IF row[c] = "N" THEN "no" ELSE row[c]]

get_database_users(rows) == [i \in 1..Len(rows) |-> ConvertRow(rows[i])]

\* SystemDatabases without the schemas performance_schema and sys
SystemDatabases_OnlyTwo == {"information_schema", "mysql"}

SystemDatabases == {"information_schema", "performance_schema", "mysql", "sys"}

\* what SHOW DATABASES can return
ServerDatabaseLists ==
    {<<"information_schema", "shop", "mysql", "crm">>,
     <<"sys", "crm", "performance_schema">>}

\* What the server answers to SHOW DATABASES: the statement that raises (if
\* any: cursor.execute or cursor.fetchall) and the names it lists.
ShowDatabasesAnswers ==
    [fail : {"none"}, names : ServerDatabaseLists]
    \cup [fail : {"execute", "fetchall"}, names : {<<"information_schema", "shop", "mysql", "crm">>}]

\* get_databases: the names are appended after fetchall has returned every
\* row, so that a failing query leaves the list empty
get_databases(answer) ==
    LET Business(db_name) == db_name \notin SystemDatabases
    IN  IF answer.fail # "none" THEN <<>> ELSE SelectSeq(answer.names, Business)

----------------------------------------------------------------------------
(* _generate_audit_summary *)

LabelCap == 3

SampleValueCap == 10

SampleCount == 2

Dash == [dash |-> TRUE, n |-> 0]

Count(n) == [dash |-> FALSE, n |-> n]

NoUser == [user |-> "", host |-> "", perms |-> <<>>]

NoDetect == [samples |-> <<>>, more |-> FALSE, count |-> 0]

Finding(risk_type, risk_level, check_item, table, fields, sensitive_type, description, detect, total) ==
    [risk_type |-> risk_type, risk_level |-> risk_level, check_item |-> check_item,
     table |-> table, fields |-> fields, sensitive_type |-> sensitive_type,
     description |-> description, detect |-> detect, total |-> total]

RECURSIVE Flatten(_, _)
Flatten(seqs, i) == IF i > Len(seqs) THEN <<>> ELSE seqs[i] \o Flatten(seqs, i + 1)

\* sensitive_fields: the "field(category)" labels, in the order of the mapping
sensitive_fields(sensitive_info) ==
    Flatten([c \in 1..Len(sensitive_info) |->
                [f \in 1..Len(sensitive_info[c].fields) |->
                    <<sensitive_info[c].fields[f].column, sensitive_info[c].rule_name>>]], 1)

\* sample_values without the cut at 10 characters
sample_values_Uncut(sensitive_info) ==
    LET Shown(m) == m.value.type # "None" /\ Len(str(m.value)) > 0
    IN  Flatten([c \in 1..Len(sensitive_info) |->
                    LET shown == SelectSeq(sensitive_info[c].fields, Shown)
                    IN  [f \in 1..Len(shown) |-> str(shown[f].value)]], 1)

\* sample_values: the values that are neither None nor empty, cut to 10 characters
sample_values(sensitive_info) ==
    LET Shown(m) == m.value.type # "None" /\ Len(str(m.value)) > 0
        Cut(v) == IF Len(v) > SampleValueCap THEN SubSeq(v, 1, SampleValueCap) \o Ellipsis ELSE v
    IN  Flatten([c \in 1..Len(sensitive_info) |->
                    LET shown == SelectSeq(sensitive_info[c].fields, Shown)
                    IN  [f \in 1..Len(shown) |-> Cut(str(shown[f].value))]], 1)

\* SensitiveFinding whose suffix counts the labels that are not shown
SensitiveFinding_CountHidden(database, table) ==
    LET sensitive_info == json_loads(table.sensitive_info)
        labels == sensitive_fields(sensitive_info)
        samples == sample_values(sensitive_info)
    IN  Finding("sensitive_info", "high", database, table.name,
                [shown |-> SubSeq(labels, 1, IF Len(labels) > LabelCap THEN LabelCap ELSE Len(labels)),
                 total |-> IF Len(labels) > LabelCap THEN Len(labels) - LabelCap ELSE 0],
                [c \in 1..Len(sensitive_info) |-> sensitive_info[c].rule_name],
                NoUser,
                [samples |-> SubSeq(samples, 1, IF Len(samples) > SampleCount THEN SampleCount ELSE Len(samples)),
                 more |-> Len(samples) > SampleCount,
                 count |-> 0],
                Count(table.total_count))

\* the finding appended for one table whose verdict is "yes" and whose
\* mapping is not empty: fields.shown are the labels joined into the field
\* summary and fields.total is the number written in the suffix
\* f'等{len(sensitive_fields)}个字段' (0 when there is no suffix)
SensitiveFinding(database, table) ==
    LET sensitive_info == json_loads(table.sensitive_info)
        labels == sensitive_fields(sensitive_info)
        samples == sample_values(sensitive_info)
    IN  Finding("sensitive_info", "high", database, table.name,
                [shown |-> SubSeq(labels, 1, IF Len(labels) > LabelCap THEN LabelCap ELSE Len(labels)),
                 total |-> IF Len(labels) > LabelCap THEN Len(labels) ELSE 0],
                [c \in 1..Len(sensitive_info) |-> sensitive_info[c].rule_name],
                NoUser,
                [samples |-> SubSeq(samples, 1, IF Len(samples) > SampleCount THEN SampleCount ELSE Len(samples)),
                 more |-> Len(samples) > SampleCount,
                 count |-> 0],
                Count(table.total_count))

\* EmitsSensitive without the test of the verdict
EmitsSensitive_AnyVerdict(table) ==
    /\ table.sensitive_info.kind = "object"
    /\ Len(json_loads(table.sensitive_info)) > 0

\* whether the loop body appends a finding for the table
EmitsSensitive(table) ==
    /\ table.confirmed = "yes"
    /\ table.sensitive_info.kind = "object"
    /\ Len(json_loads(table.sensitive_info)) > 0

\* part 1: the findings of the tables of every database, in order
SensitiveFindings(dbs_info) ==
    Flatten([d \in 1..Len(dbs_info) |->
                LET Emits(table) == EmitsSensitive(table)
                    confirmed == SelectSeq(dbs_info[d].table_info, Emits)
                IN  [k \in 1..Len(confirmed) |-> SensitiveFinding(dbs_info[d].database, confirmed[k])]], 1)

\* high_risk_permissions without the replication privileges
high_risk_permissions_NoReplication ==
    <<"SUPER_priv", "FILE_priv", "SHUTDOWN_priv", "RELOAD_priv", "PROCESS_priv", "GRANT_priv">>

high_risk_permissions ==
    <<"SUPER_priv", "FILE_priv", "SHUTDOWN_priv", "RELOAD_priv",
      "PROCESS_priv", "GRANT_priv", "REPL_SLAVE_priv", "REPL_CLIENT_priv">>

\* user.get(perm) == '是'
Holds(user, perm) == perm \in DOMAIN user /\ user[perm] = "yes"

user_high_risks(user) ==
    LET Held(perm) == Holds(user, perm)
    IN  SelectSeq(high_risk_permissions, Held)

\* HighRiskFinding with the severity "high" whatever the privileges held
HighRiskFinding_AlwaysHigh(user) ==
    LET held == user_high_risks(user)
    IN  IF Len(held) > 0
        THEN <<Finding("privilege_risk", "high",
                       "user_privileges", <<"-">>, [shown |-> <<>>, total |-> 0],
                       <<"database_privileges">>,
                       [user |-> user["User"], host |-> user["Host"], perms |-> held],
                       [samples |-> <<>>, more |-> FALSE, count |-> Len(held)],
                       Dash)>>
        ELSE <<>>

\* the finding for the high-risk privileges of one user, if any
HighRiskFinding(user) ==
    LET held == user_high_risks(user)
    IN  IF Len(held) > 0
        THEN <<Finding("privilege_risk",
                       IF \E k \in 1..Len(held) : held[k] = "SUPER_priv" THEN "high" ELSE "medium",
                       "user_privileges", <<"-">>, [shown |-> <<>>, total |-> 0],
                       <<"database_privileges">>,
                       [user |-> user["User"], host |-> user["Host"], perms |-> held],
                       [samples |-> <<>>, more |-> FALSE, count |-> Len(held)],
                       Dash)>>
        ELSE <<>>

\* WildcardFinding as the "elif" of the high-risk check: only for a user
\* without high-risk privileges
WildcardFinding_Elif(user) ==
    IF /\ Len(user_high_risks(user)) = 0
       /\ user["Host"] = "%"
       /\ \E perm \in {"SELECT_priv", "INSERT_priv", "UPDATE_priv", "DELETE_priv"} : Holds(user, perm)
    THEN <<Finding("privilege_risk", "medium", "user_privileges", <<"-">>,
                   [shown |-> <<>>, total |-> 0], <<"host_privileges">>,
                   [user |-> user["User"], host |-> "%", perms |-> <<>>],
                   NoDetect, Dash)>>
    ELSE <<>>

\* the finding for a wildcard host with data privileges, if any
WildcardFinding(user) ==
    IF /\ user["Host"] = "%"
       /\ \E perm \in {"SELECT_priv", "INSERT_priv", "UPDATE_priv", "DELETE_priv"} : Holds(user, perm)
    THEN <<Finding("privilege_risk", "medium", "user_privileges", <<"-">>,
                   [shown |-> <<>>, total |-> 0], <<"host_privileges">>,
                   [user |-> user["User"], host |-> "%", perms |-> <<>>],
                   NoDetect, Dash)>>
    ELSE <<>>

\* part 2: the findings of every user, in order
PrivilegeFindings(us) ==
    Flatten([u \in 1..Len(us) |-> HighRiskFinding(us[u]) \o WildcardFinding(us[u])], 1)

\* risk_priority.get(level, 99)
risk_priority(level) ==
    CASE level = "high" -> 1
      [] level = "medium" -> 2
      [] level = "low" -> 3
      [] OTHER -> 99

\* The order of the risk types as Python compares the strings: by the code
\* point of the first character, in which '敏感信息' (U+654F) and '权限风险'
\* (U+6743) differ.
TypeOrder(risk_type) == IF risk_type = "sensitive_info" THEN 25935 ELSE 26435

\* key(a) < key(b) for the key (risk_priority, risk type)
KeyLess(a, b) ==
    \/ risk_priority(a.risk_level) < risk_priority(b.risk_level)
    \/ /\ risk_priority(a.risk_level) = risk_priority(b.risk_level)
       /\ TypeOrder(a.risk_type) < TypeOrder(b.risk_type)

\* InsertStable with x put in front of the elements of equal key
InsertStable_BeforeEqual(sorted, x) ==
    LET k == Cardinality({i \in 1..Len(sorted) : KeyLess(sorted[i], x)})
    IN  SubSeq(sorted, 1, k) \o <<x>> \o SubSeq(sorted, k + 1, Len(sorted))

\* x inserted into a sorted list behind every element whose key is not greater
InsertStable(sorted, x) ==
    LET k == Cardinality({i \in 1..Len(sorted) : ~KeyLess(x, sorted[i])})
    IN  SubSeq(sorted, 1, k) \o <<x>> \o SubSeq(sorted, k + 1, Len(sorted))

\* list.sort(key=...) on the first n elements: a stable sort
RECURSIVE SortPrefix(_, _)
SortPrefix(q, n) == IF n = 0 THEN <<>> ELSE InsertStable(SortPrefix(q, n - 1), q[n])

sort(q) == SortPrefix(q, Len(q))

\* audit_results before the sort
Generated(us, dbs_info) == SensitiveFindings(dbs_info) \o PrivilegeFindings(us)

_generate_audit_summary(us, dbs_info) == sort(Generated(us, dbs_info))

----------------------------------------------------------------------------
(* audit_datasource: users, databases, tables of every database, report *)

MaxTables == 2

int_1 == IntValue(<<"1">>)

\* the tables a database can hold, as the server answers for them
ServerTables ==
    {Table(<<col_id, col_phone>>, "none", 3, <<int_1, v_phone>>),
     Table(<<col_id, col_phone>>, "none", 2, <<int_1, v_phone_plus>>),
     Table(<<col_token>>, "none", 4, <<v_long51>>),
     Table(<<col_token>>, "none", 6, <<v_long101>>),
     Table(<<col_id, col_phone, col_email, col_token>>, "none", 7,
           <<v_phone, NoneValue, v_mail, v_token12>>),
     Table(<<col_id, col_email>>, "none", 0, <<>>),
     \* the sampled row is gone between COUNT(*) and SELECT: fetchone() is None
     Table(<<col_id, col_phone>>, "none", 1, <<>>),
     Table(<<col_id, col_phone>>, "sample", 5, <<>>),
     Table(<<>>, "describe", 0, <<>>),
     Table(<<col_id, col_phone>>, "count", 0, <<>>)}

InitAudit ==
    /\ au_pc = "users"
    /\ user_rows = <<>>
    /\ users = <<>>
    /\ show_databases = [fail |-> "none", names |-> <<>>]
    /\ databases = <<>>
    /\ databases_info = <<>>
    /\ server_tables = <<>>
    /\ table_info = <<>>
    /\ sensitive_info_json = Unbound
    /\ sensitive_confirmed = "unbound"
    /\ generated = <<>>
    /\ audit_results = <<>>

\* users = self.get_database_users(connection)
GetDatabaseUsers ==
    /\ au_pc = "users"
    /\ \E rows \in UserRowLists :
          /\ user_rows' = rows
          /\ users' = get_database_users(rows)
    /\ au_pc' = "databases"
    /\ UNCHANGED <<app_vars, md_vars, rules_file, cl_vars, show_databases, databases, databases_info, server_tables, table_info,
                   sensitive_info_json, sensitive_confirmed, generated, audit_results>>

\* databases = self.get_databases(connection)
GetDatabases ==
    /\ au_pc = "databases"
    /\ \E answer \in ShowDatabasesAnswers :
          /\ show_databases' = answer
          /\ databases' = get_databases(answer)
          /\ au_pc' = IF get_databases(answer) = <<>> THEN "report" ELSE "tables"
    /\ UNCHANGED <<app_vars, md_vars, rules_file, cl_vars, user_rows, users, databases_info, server_tables, table_info,
                   sensitive_info_json, sensitive_confirmed, generated, audit_results>>

\* the number of tables read so far in this audit
TablesRead ==
    Len(table_info) + Len(Flatten([d \in 1..Len(databases_info) |-> databases_info[d].table_info], 1))

\* get_table_info: the loop body for the next table of the current database
ProcessTable ==
    /\ au_pc = "tables"
    /\ TablesRead < MaxTables
    /\ \E t \in ServerTables :
          LET step == TableStep(<<"t", Len(table_info) + 1>>, t, sensitive_info_json, sensitive_confirmed)
          IN  /\ table_info' = Append(table_info, step.result)
              /\ sensitive_info_json' = step.json
              /\ sensitive_confirmed' = step.confirmed
              /\ server_tables' = Append(server_tables, t)
    /\ UNCHANGED <<app_vars, md_vars, rules_file, cl_vars, user_rows, au_pc, users, show_databases, databases, databases_info,
                   generated, audit_results>>

\* get_table_info returns: databases_info[database] = table_info; the next
\* call starts with fresh locals
ReturnTableInfo ==
    /\ au_pc = "tables"
    /\ databases_info' = Append(databases_info,
                                [database |-> databases[Len(databases_info) + 1],
                                 table_info |-> table_info,
                                 tables |-> server_tables])
    /\ table_info' = <<>>
    /\ server_tables' = <<>>
    /\ sensitive_info_json' = Unbound
    /\ sensitive_confirmed' = "unbound"
    /\ au_pc' = IF Len(databases_info) + 1 = Len(databases) THEN "report" ELSE "tables"
    /\ UNCHANGED <<app_vars, md_vars, rules_file, cl_vars, user_rows, users, show_databases, databases, generated, audit_results>>

\* generate_excel_report: audit_results = self._generate_audit_summary(users, databases_info)
GenerateAuditSummary ==
    /\ au_pc = "report"
    /\ generated' = Generated(users, databases_info)
    /\ audit_results' = _generate_audit_summary(users, databases_info)
    /\ au_pc' = "done"
    /\ UNCHANGED <<app_vars, md_vars, rules_file, cl_vars, user_rows, users, show_databases, databases, databases_info,
                   server_tables, table_info, sensitive_info_json, sensitive_confirmed>>

----------------------------------------------------------------------------
(* parse_datasource_config *)

\* str.split(sep), sep one character
RECURSIVE split(_, _)
split(s, sep) ==
    IF \A i \in 1..Len(s) : s[i] # sep THEN <<s>>
    ELSE LET i == CHOOSE j \in 1..Len(s) : s[j] = sep /\ \A k \in 1..(j - 1) : s[k] # sep
         IN  <<SubSeq(s, 1, i - 1)>> \o split(SubSeq(s, i + 1, Len(s)), sep)

DigitValue ==
    ("0" :> 0) @@ ("1" :> 1) @@ ("2" :> 2) @@ ("3" :> 3) @@ ("4" :> 4) @@
    ("5" :> 5) @@ ("6" :> 6) @@ ("7" :> 7) @@ ("8" :> 8) @@ ("9" :> 9)

\* whether int(s) returns: s, trimmed, is a non-empty run of digits (the
\* texts considered hold no sign and no underscore); int raises ValueError
\* otherwise
IsIntLiteral(s) == Len(strip(s)) > 0 /\ \A i \in 1..Len(strip(s)) : strip(s)[i] \in Digits

\* the value of a run of digits
RECURSIVE DigitsValue(_)
DigitsValue(s) ==
    IF Len(s) = 0 THEN 0 ELSE 10 * DigitsValue(SubSeq(s, 1, Len(s) - 1)) + DigitValue[s[Len(s)]]

\* int(s), for s accepted by int
int(s) == DigitsValue(strip(s))

\* a function returning v
Returned(v) == [returned |-> v]

Datasource(parts) ==
    [datasource_name |-> parts[1], ip |-> parts[2], port |-> int(parts[3]),
     username |-> parts[4], password |-> parts[5]]

\* the loop "for line in lines", from line k on
RECURSIVE ParseLines(_, _, _)
ParseLines(lines, k, acc) ==
    IF k > Len(lines) THEN Returned(acc)
    ELSE LET line == strip(lines[k])
             raw == split(line, ",")
             parts == [i \in 1..Len(raw) |-> strip(raw[i])]
         IN  IF Len(line) = 0 \/ line[1] = "#" THEN ParseLines(lines, k + 1, acc)
             ELSE IF Len(parts) >= 5
                  THEN IF IsIntLiteral(parts[3])
                       THEN ParseLines(lines, k + 1, Append(acc, Datasource(parts)))
                       ELSE Raised("ValueError")
                  ELSE ParseLines(lines, k + 1, acc)

parse_datasource_config(config_text) == ParseLines(split(strip(config_text), "\n"), 1, <<>>)

MaxLines == 3

\* The lines a configuration text is made of:
\*   ok1               'a,h,1,u,p'
\*   ok2               ' b , h , 22 , u , p , x'
\*   comment           '#a,h,1,u,p'
\*   indented_comment  ' # c'
\*   blank             ''
\*   spaces            '  '
\*   short             'a,h,1,u'
\*   bad_port          'c,h,x,u,p'
\*   empty_port        'd,h,,u,p'
ConfigLine(name) ==
    CASE name = "ok1" -> <<"a", ",", "h", ",", "1", ",", "u", ",", "p">>
      [] name = "ok2" -> <<" ", "b", " ", ",", " ", "h", " ", ",", " ", "2", "2", " ", ",", " ", "u", " ", ",", " ", "p", " ", ",", " ", "x">>
      [] name = "comment" -> <<"#", "a", ",", "h", ",", "1", ",", "u", ",", "p">>
      [] name = "indented_comment" -> <<" ", "#", " ", "c">>
      [] name = "blank" -> <<>>
      [] name = "spaces" -> <<" ", " ">>
      [] name = "short" -> <<"a", ",", "h", ",", "1", ",", "u">>
      [] name = "bad_port" -> <<"c", ",", "h", ",", "x", ",", "u", ",", "p">>
      [] name = "empty_port" -> <<"d", ",", "h", ",", ",", "u", ",", "p">>

ConfigLineNames ==
    {"ok1", "ok2", "comment", "indented_comment", "blank", "spaces", "short", "bad_port", "empty_port"}

\* "\n".join(lines)
RECURSIVE Join(_, _)
Join(lines, k) ==
    IF k > Len(lines) THEN <<>>
    ELSE IF k = Len(lines) THEN lines[k]
    ELSE lines[k] \o <<"\n">> \o Join(lines, k + 1)

\* the argument config_text made of the lines named
ConfigText(names) == Join([i \in 1..Len(names) |-> ConfigLine(names[i])], 1)

----------------------------------------------------------------------------
(* audit_multiple_datasources *)

\* What the server of one datasource does during its audit: whether
\* pymysql.connect succeeds, whether the queries of get_database_users,
\* get_databases and get_table_info succeed, and whether the report file can
\* be written.
Servers == [connect : {"ok", "refused"}, enumeration : {"ok", "fails"}, report : {"ok", "raises"}]

\* excel_path of generate_excel_report: the file
\* "<datasource_name>_<timestamp>.xlsx" in the output directory
excel_path(datasource_name) == [type |-> "path", s |-> datasource_name]

\* audit_datasource with a failed enumeration query ending the audit of the
\* datasource
audit_datasource_EnumerationSkips(datasource, server) ==
    IF server.connect = "refused" THEN NoneValue
    ELSE IF server.enumeration = "fails" THEN NoneValue
    ELSE IF server.report = "raises" THEN NoneValue
    ELSE excel_path(datasource.datasource_name)

\* audit_datasource: None when connect_database returned None or when
\* generate_excel_report raised; a failed query of the enumeration is caught
\* inside get_database_users, get_databases or get_table_info, which return
\* what they collected, so that the report is still written
audit_datasource(datasource, server) ==
    IF server.connect = "refused" THEN NoneValue
    ELSE IF server.report = "raises" THEN NoneValue
    ELSE excel_path(datasource.datasource_name)

\* pymysql.connect in connect_database: the connection object, or None when
\* the handler "except Exception" of connect_database caught the failure
connect_database(server) ==
    IF server.connect = "ok" THEN [type |-> "Connection", open |-> TRUE, closes |-> 0]
    ELSE [type |-> "None", open |-> FALSE, closes |-> 0]

\* connection.close()
close(connection) == [connection EXCEPT !.open = FALSE, !.closes = @ + 1]

\* connection.close() placed after the report instead of in "finally"
finally_close_AfterReport(connection, server) ==
    IF server.report = "raises" THEN connection ELSE close(connection)

\* "finally: connection.close()" of audit_datasource: runs however the
\* try block ended
finally_close(connection, server) == close(connection)

InitMulti ==
    /\ config_lines = <<>>
    /\ md_pc = "start"
    /\ datasources = <<>>
    /\ md_servers = <<>>
    /\ connections = <<>>
    /\ excel_files = <<>>

\* datasources = self.parse_datasource_config(config_text), and the return
\* of the empty list when there is no datasource
ParseDatasourceConfig ==
    /\ md_pc = "start"
    /\ \E names \in SeqsUpTo(ConfigLineNames, MaxLines) :
          LET parsed == parse_datasource_config(ConfigText(names))
          IN  /\ config_lines' = names
              /\ datasources' = IF "raised" \in DOMAIN parsed THEN <<>> ELSE parsed.returned
              /\ md_pc' = IF "raised" \in DOMAIN parsed THEN "raised"
                           ELSE IF parsed.returned = <<>> THEN "returned"
                           ELSE "loop"
    /\ UNCHANGED <<app_vars, rules_file, cl_vars, au_vars, md_servers, connections, excel_files>>

\* the next iteration of "for datasource in datasources", up to the test
\* "if not connection: return None" of audit_datasource
ConnectDatabase ==
    /\ md_pc = "loop"
    /\ Len(md_servers) < Len(datasources)
    /\ \E server \in Servers :
          /\ md_servers' = Append(md_servers, server)
          /\ connections' = Append(connections, connect_database(server))
          /\ md_pc' = IF connect_database(server).type = "None" THEN "loop" ELSE "try"
    /\ UNCHANGED <<app_vars, rules_file, cl_vars, au_vars, config_lines, datasources, excel_files>>

\* the try statement of audit_datasource with its finally clause, and the
\* rest of the iteration of audit_multiple_datasources
AuditDatasource ==
    /\ md_pc = "try"
    /\ LET n == Len(md_servers)
           path == audit_datasource(datasources[n], md_servers[n])
       IN  /\ excel_files' = IF path # NoneValue THEN Append(excel_files, path) ELSE excel_files
           /\ connections' = [connections EXCEPT ![n] = finally_close(@, md_servers[n])]
    /\ md_pc' = "loop"
    /\ UNCHANGED <<app_vars, rules_file, cl_vars, au_vars, config_lines, datasources, md_servers>>

\* return excel_files
ReturnExcelFiles ==
    /\ md_pc = "loop"
    /\ Len(md_servers) = Len(datasources)
    /\ md_pc' = "returned"
    /\ UNCHANGED <<app_vars, rules_file, cl_vars, au_vars, config_lines, datasources, md_servers, connections,
                   excel_files>>

----------------------------------------------------------------------------
(* App.run, create_parser, handle_command, handle_audit_command *)

MaxArgs == 4

\* The words an argument list is made of: the command, the options of the
\* audit command, an option no parser knows, a plain word and the empty
\* string.
Tokens == {"audit", "-f", "-c", "-i", "-o", "--help", "-x", "v", ""}

\* the words the parser takes for option strings
OptionLike == {"-f", "-c", "-i", "-o", "--help", "-x"}

\* an attribute of the namespace that is None
NoArg == "None"

\* the namespace of the audit command before any option is read
AuditDefaults ==
    [command |-> "audit", file |-> NoArg, config |-> NoArg, interactive |-> FALSE,
     output |-> "audit_reports"]

\* audit_parser reading rest from position i: -f, -c and -o take the next
\* word unless it is an option string, -f, -c and -i exclude one another
\* and one of them is required; --help, an unknown option and a stray word
\* end in SystemExit
RECURSIVE parse_audit(_, _, _)
parse_audit(rest, i, ns) ==
    IF i > Len(rest)
    THEN IF ns.file = NoArg /\ ns.config = NoArg /\ ~ns.interactive
         THEN Raised("SystemExit") ELSE Returned(ns)
    ELSE IF rest[i] = "-i"
    THEN IF ns.file # NoArg \/ ns.config # NoArg THEN Raised("SystemExit")
         ELSE parse_audit(rest, i + 1, [ns EXCEPT !.interactive = TRUE])
    ELSE IF rest[i] \in {"-f", "-c", "-o"}
    THEN IF i + 1 > Len(rest) \/ rest[i + 1] \in OptionLike THEN Raised("SystemExit")
         ELSE IF rest[i] = "-f" /\ (ns.config # NoArg \/ ns.interactive) THEN Raised("SystemExit")
         ELSE IF rest[i] = "-c" /\ (ns.file # NoArg \/ ns.interactive) THEN Raised("SystemExit")
         ELSE parse_audit(rest, i + 2,
                          CASE rest[i] = "-f" -> [ns EXCEPT !.file = rest[i + 1]]
                            [] rest[i] = "-c" -> [ns EXCEPT !.config = rest[i + 1]]
                            [] rest[i] = "-o" -> [ns EXCEPT !.output = rest[i + 1]])
    ELSE Raised("SystemExit")

\* parser.parse_args(args) for the parser of create_parser and a list that
\* is not empty: the first word has to be the command
parse_args(args) ==
    IF args[1] # "audit" THEN Raised("SystemExit")
    ELSE parse_audit(SubSeq(args, 2, Len(args)), 1, AuditDefaults)

\* parse_args was not called
NotCalled == [not_called |-> TRUE]

\* What handle_audit_command meets: the file named by -f, what the user
\* types in the interactive mode, the output directory, and whether
\* audit_multiple_datasources raises.
Environments ==
    [file : {"missing", "unreadable", "blank", "text"},
     input : {"blank", "text", "EOFError"},
     output_dir : {"exists", "creatable", "uncreatable"},
     audit : {"returns", "raises"}]

NoEnvironment == [file |-> "none", input |-> "none", output_dir |-> "none", audit |-> "none"]

\* the outcome of a handler: where App.run ends and whether the audit was
\* started
Outcome(pc, audit) == [pc |-> pc, audit |-> audit]

\* handle_audit_command from the assignment of the output directory on:
\* ensure_output_dir is outside the try statement, the audit inside
StartAudit(args, env) ==
    IF args.output = "" \/ env.output_dir = "uncreatable" THEN Outcome("raised", FALSE)
    ELSE Outcome("returned", TRUE)

\* handle_audit_command
handle_audit_command(args, env) ==
    IF args.file \notin {NoArg, ""}
    THEN IF env.file \in {"missing", "unreadable", "blank"} THEN Outcome("returned", FALSE)
         ELSE StartAudit(args, env)
    ELSE IF args.config \notin {NoArg, ""}
    THEN StartAudit(args, env)
    ELSE IF args.interactive
    THEN IF env.input = "EOFError" THEN Outcome("raised", FALSE)
         ELSE IF env.input = "blank" THEN Outcome("returned", FALSE)
         ELSE StartAudit(args, env)
    ELSE Outcome("returned", FALSE)

\* handle_command
handle_command(args, env) ==
    IF args.command = "audit" THEN handle_audit_command(args, env)
    ELSE Outcome("returned", FALSE)

\* App.run without the handler "except SystemExit"
run_NoHandler(args) ==
    IF args = <<>> THEN [pc |-> "returned", help |-> TRUE, parsed |-> NotCalled]
    ELSE IF "raised" \in DOMAIN parse_args(args)
    THEN [pc |-> "raised", help |-> FALSE, parsed |-> parse_args(args)]
    ELSE [pc |-> "handle", help |-> FALSE, parsed |-> parse_args(args)]

\* App.run up to the call of handle_command: help and return for no
\* arguments (None or an empty list), "except SystemExit: pass" for what
\* the parser rejects
run(args) ==
    IF args = <<>> THEN [pc |-> "returned", help |-> TRUE, parsed |-> NotCalled]
    ELSE IF "raised" \in DOMAIN parse_args(args)
    THEN [pc |-> "returned", help |-> FALSE, parsed |-> parse_args(args)]
    ELSE [pc |-> "handle", help |-> FALSE, parsed |-> parse_args(args)]

InitApp ==
    /\ app_pc = "start"
    /\ app_args = <<>>
    /\ app_help = FALSE
    /\ app_parsed = NotCalled
    /\ app_env = NoEnvironment
    /\ app_audit = FALSE

\* app.run(args)
AppRun ==
    /\ app_pc = "start"
    /\ \E args \in SeqsUpTo(Tokens, MaxArgs) :
          /\ app_args' = args
          /\ app_pc' = run(args).pc
          /\ app_help' = run(args).help
          /\ app_parsed' = run(args).parsed
    /\ UNCHANGED <<rules_file, cl_vars, au_vars, md_vars, app_env, app_audit>>

\* self.handle_command(parsed_args), inside the try statement of App.run
HandleCommand ==
    /\ app_pc = "handle"
    /\ \E env \in Environments :
          /\ app_env' = env
          /\ app_pc' = handle_command(app_parsed.returned, env).pc
          /\ app_audit' = handle_command(app_parsed.returned, env).audit
    /\ UNCHANGED <<rules_file, cl_vars, au_vars, md_vars, app_args, app_help, app_parsed>>

Init ==
    /\ rules_file \in RuleFiles
    /\ InitClassifier
    /\ InitAudit
    /\ InitMulti
    /\ InitApp

NextClassify == IdentifyCall \/ ConfirmCall

SpecClassify == Init /\ [][NextClassify]_vars

NextReload == IdentifyCall \/ ReplaceRulesFile \/ ConfirmCall

SpecReload == Init /\ [][NextReload]_vars

NextAudit == GetDatabaseUsers \/ GetDatabases \/ ProcessTable \/ ReturnTableInfo \/ GenerateAuditSummary

SpecAudit == Init /\ [][NextAudit]_vars

NextMulti == ParseDatasourceConfig \/ ConnectDatabase \/ AuditDatasource \/ ReturnExcelFiles

SpecMulti == Init /\ [][NextMulti]_vars

NextApp == AppRun \/ HandleCommand

SpecApp == Init /\ [][NextApp]_vars

----------------------------------------------------------------------------
(* Properties of the classifier and of the confirmation policy *)

\* the matches of a mapping, as <<category, match>> pairs
MatchesOf(info) ==
    UNION {{<<info[c].rule_name, info[c].fields[f]>> : f \in 1..Len(info[c].fields)} :
           c \in 1..Len(info)}

\* the record is aligned with the columns, so that column/value pairs exist
Aligned == Len(cl_record) > 0 /\ Len(cl_record) = Len(cl_columns)

\* the match's value re-matches a pattern of its own category in the active rule set
Rematches(cm) ==
    /\ HasRule(load_sensitive_rules, cm[1])
    /\ cm[2].value.type # "None"
    /\ \E p \in {RuleNamed(load_sensitive_rules, cm[1]).regex_patterns[k] :
                 k \in 1..Len(RuleNamed(load_sensitive_rules, cm[1]).regex_patterns)} :
          p.ok /\ re_match(p, strip(str(cm[2].value)))

\* C1, first half: the verdict is "yes" if and only if some Column Match of
\* the input has a value that re-matches a pattern of its own category.
C1_ConfirmedIffRematch ==
    cl_pc = "confirmed" =>
        ((cl_confirmed = "yes") <=> (\E cm \in MatchesOf(cl_info) : Rematches(cm)))

\* C1: confirm_sensitive_data returns "yes" if and only if some Column Match
\* of its input has a value that re-matches a pattern of its own category in
\* the active rule set, and an input whose matches are all field-name-only
\* (value_match false) is never confirmed.
C1_ConfirmContract ==
    cl_pc = "confirmed" =>
        /\ (cl_confirmed = "yes") <=> (\E cm \in MatchesOf(cl_info) : Rematches(cm))
        /\ (\A cm \in MatchesOf(cl_info) : ~cm[2].value_match) => cl_confirmed = "no"

\* the pair (column i, rule j) has a keyword in the column name and a
\* pattern matching the value
BothSignals(i, j) ==
    LET cfg == load_sensitive_rules
        rule == cfg.sensitive_rules[j]
    IN  /\ rule.name \in cfg.settings.enabled_rules
        /\ cl_record[i].type # "None"
        /\ FieldMatch(cfg.settings, rule, cl_columns[i])
        /\ ValueMatch(rule, strip(str(cl_record[i])))

RecordedBoth(i, j) ==
    \E cm \in MatchesOf(cl_info) :
        /\ cm[1] = load_sensitive_rules.sensitive_rules[j].name
        /\ cm[2].column = cl_columns[i]
        /\ cm[2].field_match
        /\ cm[2].value_match

\* C2 as stated: for every column/value pair and every enabled category, a
\* keyword in the column name and a pattern matching the value yield a
\* recorded Column Match with field_match and value_match true.
C2_BothSignalsRecorded ==
    (cl_pc # "idle" /\ Aligned) =>
        \A i \in 1..Len(cl_columns), j \in 1..Len(load_sensitive_rules.sensitive_rules) :
            BothSignals(i, j) => RecordedBoth(i, j)

\* C2 amended: the same, for the values the classifier does not reject as
\* test data or as longer than the maximum value length.
C2_BothSignalsRecordedUnlessRejected ==
    (cl_pc # "idle" /\ Aligned) =>
        \A i \in 1..Len(cl_columns), j \in 1..Len(load_sensitive_rules.sensitive_rules) :
            (BothSignals(i, j) /\ ~Rejected(load_sensitive_rules.settings, strip(str(cl_record[i]))))
                => RecordedBoth(i, j)

C2_Witness ==
    /\ cl_pc = "identified"
    /\ Aligned
    /\ \E i \in 1..Len(cl_columns), j \in 1..Len(load_sensitive_rules.sensitive_rules) :
          /\ BothSignals(i, j)
          /\ ~Rejected(load_sensitive_rules.settings, strip(str(cl_record[i])))
          /\ RecordedBoth(i, j)

\* the value of column i contains, case-insensitively, a configured test-data marker
HasTestMarker(i) ==
    LET settings == load_sensitive_rules.settings
    IN  /\ cl_record[i].type # "None"
        /\ \E k \in 1..Len(settings.test_patterns) :
              contains(lower(settings.test_patterns[k]), lower(strip(str(cl_record[i]))))

\* C4: with test-data exclusion enabled, a non-null value whose trimmed
\* string contains a test-data marker leaves no Column Match for its column
\* in any category, even when the column name contains a keyword.
C4_TestDataNeverRecorded ==
    (cl_pc # "idle" /\ Aligned /\ load_sensitive_rules.settings.exclude_test_data) =>
        \A i \in 1..Len(cl_columns) :
            HasTestMarker(i) => \A cm \in MatchesOf(cl_info) : cm[2].column # cl_columns[i]

C4_Witness ==
    /\ cl_pc = "identified"
    /\ Aligned
    /\ load_sensitive_rules.settings.exclude_test_data
    /\ \E i \in 1..Len(cl_columns), j \in 1..Len(load_sensitive_rules.sensitive_rules) :
          /\ HasTestMarker(i)
          /\ load_sensitive_rules.sensitive_rules[j].name \in load_sensitive_rules.settings.enabled_rules
          /\ FieldMatch(load_sensitive_rules.settings, load_sensitive_rules.sensitive_rules[j], cl_columns[i])
          /\ \A cm \in MatchesOf(cl_info) : cm[2].column # cl_columns[i]

\* C5: an empty record, or one whose length differs from the number of
\* columns, yields the empty mapping under every rule set.
C5_EmptyOnLengthMismatch ==
    (cl_pc # "idle" /\ ~Aligned) => cl_info = <<>>

\* a mismatched call whose first column and value would have matched
C5_Witness ==
    /\ cl_pc = "identified"
    /\ Len(cl_record) > 0
    /\ Len(cl_columns) > 0
    /\ Len(cl_record) # Len(cl_columns)
    /\ Identify(load_sensitive_rules, <<cl_columns[1]>>, <<cl_record[1]>>) # <<>>
    /\ cl_info = <<>>

\* the categories that are keys of the returned mapping
CategoryKeys == {cl_info[c].rule_name : c \in 1..Len(cl_info)}

\* the categories defined in the loaded rule set
DefinedCategories ==
    {load_sensitive_rules.sensitive_rules[j].name : j \in 1..Len(load_sensitive_rules.sensitive_rules)}

\* C12: every category key of the mapping returned by
\* identify_sensitive_info is defined in the loaded rule set and listed in
\* its enabled-category list; a defined but disabled category never appears.
C12_OnlyEnabledCategories ==
    cl_pc # "idle" =>
        CategoryKeys \subseteq (DefinedCategories \cap load_sensitive_rules.settings.enabled_rules)

\* a call in which a disabled category has a keyword in a column name and a
\* pattern matching the value of that column, next to a recorded category
C12_Witness ==
    /\ cl_pc = "identified"
    /\ Aligned
    /\ cl_info # <<>>
    /\ \E i \in 1..Len(cl_columns), j \in 1..Len(load_sensitive_rules.sensitive_rules) :
          LET rule == load_sensitive_rules.sensitive_rules[j]
          IN  /\ rule.name \notin load_sensitive_rules.settings.enabled_rules
              /\ cl_record[i].type # "None"
              /\ ~Rejected(load_sensitive_rules.settings, strip(str(cl_record[i])))
              /\ FieldMatch(load_sensitive_rules.settings, rule, cl_columns[i])
              /\ ValueMatch(rule, strip(str(cl_record[i])))
              /\ rule.name \notin CategoryKeys

\* the Column Matches recorded for column i in the category of rule j
RecordedFor(i, j) ==
    {cm \in MatchesOf(cl_info) :
        /\ cm[1] = load_sensitive_rules.sensitive_rules[j].name
        /\ cm[2].column = cl_columns[i]}

\* whether a pattern of rule j matches the value of column i
ValueSignal(i, j) ==
    /\ cl_record[i].type # "None"
    /\ ValueMatch(load_sensitive_rules.sensitive_rules[j], strip(str(cl_record[i])))

\* whether a keyword of rule j occurs in the name of column i
FieldSignal(i, j) ==
    FieldMatch(load_sensitive_rules.settings, load_sensitive_rules.sensitive_rules[j], cl_columns[i])

\* the value of column i is dropped by the test-data or the length check
RejectedValue(i) ==
    /\ cl_record[i].type # "None"
    /\ Rejected(load_sensitive_rules.settings, strip(str(cl_record[i])))

ValueOnlyRecorded(i, j) ==
    \E cm \in RecordedFor(i, j) : ~cm[2].field_match /\ cm[2].value_match

\* C13 as stated: every recorded Column Match has field_match or value_match
\* true, a pair with both signals false is never recorded, and a pair of an
\* enabled category for which only the value matches is recorded with
\* field_match false and value_match true.
C13_AtLeastOneSignal ==
    cl_pc # "idle" =>
        /\ \A cm \in MatchesOf(cl_info) : cm[2].field_match \/ cm[2].value_match
        /\ Aligned =>
              \A i \in 1..Len(cl_columns), j \in 1..Len(load_sensitive_rules.sensitive_rules) :
                 /\ (~FieldSignal(i, j) /\ ~ValueSignal(i, j)) => RecordedFor(i, j) = {}
                 /\ (/\ load_sensitive_rules.sensitive_rules[j].name
                            \in load_sensitive_rules.settings.enabled_rules
                     /\ ~FieldSignal(i, j)
                     /\ ValueSignal(i, j)) => ValueOnlyRecorded(i, j)

\* C13 amended: the same, the value-only pair being recorded when the
\* classifier does not reject the value as test data or as too long.
C13_AtLeastOneSignalUnlessRejected ==
    cl_pc # "idle" =>
        /\ \A cm \in MatchesOf(cl_info) : cm[2].field_match \/ cm[2].value_match
        /\ Aligned =>
              \A i \in 1..Len(cl_columns), j \in 1..Len(load_sensitive_rules.sensitive_rules) :
                 /\ (~FieldSignal(i, j) /\ ~ValueSignal(i, j)) => RecordedFor(i, j) = {}
                 /\ (/\ load_sensitive_rules.sensitive_rules[j].name
                            \in load_sensitive_rules.settings.enabled_rules
                     /\ ~FieldSignal(i, j)
                     /\ ValueSignal(i, j)
                     /\ ~RejectedValue(i)) => ValueOnlyRecorded(i, j)

\* a call with a value-only pair that is recorded and, for the same
\* category, a column with neither signal that is not
C13_Witness ==
    /\ cl_pc = "identified"
    /\ Aligned
    /\ \E i, k \in 1..Len(cl_columns), j \in 1..Len(load_sensitive_rules.sensitive_rules) :
          /\ ~FieldSignal(i, j) /\ ValueSignal(i, j) /\ ValueOnlyRecorded(i, j)
          /\ ~FieldSignal(k, j) /\ ~ValueSignal(k, j) /\ RecordedFor(k, j) = {}

\* the built-in rule set: one enabled category, phone number, with the
\* keywords phone, mobile, telephone and the pattern ^1[3-9]\d{9}$
BuiltInRuleSet(r) ==
    /\ "raised" \notin DOMAIN r
    /\ Len(r.sensitive_rules) = 1
    /\ r.sensitive_rules[1].name = "phone_number"
    /\ r.sensitive_rules[1].field_keywords = <<kw_phone, kw_mobile, kw_telephone>>
    /\ r.sensitive_rules[1].regex_patterns = <<PhonePattern>>
    /\ r.settings.enabled_rules = {"phone_number"}

\* C14: load_sensitive_rules never raises: it returns the built-in default
\* rule set when the rule file is absent, unreadable or fails to parse, and
\* the parsed content when the file parses.
C14_RulesLoadNeverRaises ==
    /\ "raised" \notin DOMAIN load_sensitive_rules
    /\ rules_file \in {"absent", "unreadable", "malformed"} => BuiltInRuleSet(load_sensitive_rules)
    /\ rules_file = "A" => load_sensitive_rules = RulesFileA
    /\ rules_file = "B" => load_sensitive_rules = RulesFileB

\* a call that classified a phone number by the default rules, the rule
\* file being present but not parseable
C14_Witness ==
    /\ rules_file = "malformed"
    /\ cl_pc = "identified"
    /\ \E c \in 1..Len(cl_info) : cl_info[c].rule_name = "phone_number"

----------------------------------------------------------------------------
(* Properties of get_table_info and of _generate_audit_summary *)

\* every table read so far: <<database position, result, what the server answered>>
ResultsSoFar ==
    UNION {{<<d, databases_info[d].table_info[k], databases_info[d].tables[k]>> :
                k \in 1..Len(databases_info[d].table_info)} : d \in 1..Len(databases_info)}
    \cup {<<Len(databases_info) + 1, table_info[k], server_tables[k]>> : k \in 1..Len(table_info)}

\* the classification reported for the table holds a Column Match with
\* value_match true whose sampled value, in the row sampled from this table,
\* matches a pattern of the category
HasValidatedMatch(result, t) ==
    /\ result.sensitive_info.kind = "object"
    /\ \E cm \in MatchesOf(json_loads(result.sensitive_info)), i \in 1..Len(t.record) :
          /\ t.columns[i] = cm[2].column
          /\ cm[2].value_match
          /\ t.record[i].type # "None"
          /\ HasRule(load_sensitive_rules, cm[1])
          /\ ValueMatch(RuleNamed(load_sensitive_rules, cm[1]), strip(str(t.record[i])))

\* C3: in every table result of get_table_info, the verdict is "yes" only
\* if the table's classification contains a Column Match whose value_match
\* is true and whose raw sampled value matches a pattern of that category.
C3_ConfirmedOnlyIfValueMatch ==
    \A x \in ResultsSoFar : x[2].confirmed = "yes" => HasValidatedMatch(x[2], x[3])

\* the display values of the Column Matches of a table result
DisplayValuesOf(result) ==
    IF result.sensitive_info.kind # "object" THEN {}
    ELSE {str(cm[2].value) : cm \in {x \in MatchesOf(json_loads(result.sensitive_info)) :
                                          x[2].value.type = "str"}}

\* the stringified sample values of a table result
SampleStringsOf(result) ==
    IF result.column_values.kind # "object" THEN {}
    ELSE {str(result.column_values.val[i].value) :
            i \in {k \in 1..Len(result.column_values.val) :
                        result.column_values.val[k].value.type = "str"}}

\* s has at most cap characters
Within(s, cap) == Len(s) <= cap

\* s has at most cap characters, or exactly cap characters followed by "..."
WithinOrCut(s, cap) ==
    \/ Len(s) <= cap
    \/ Len(s) = cap + 3 /\ SubSeq(s, cap + 1, cap + 3) = Ellipsis

\* C11 as stated: every display value of a Column Match is at most 50
\* characters long and every stringified sample value of a table result is
\* at most 100 characters long.
C11_WithinCaps ==
    \A x \in ResultsSoFar :
        /\ \A s \in DisplayValuesOf(x[2]) : Within(s, 50)
        /\ \A s \in SampleStringsOf(x[2]) : Within(s, 100)

\* C11 amended: a display value holds at most 50 characters of the value,
\* followed by the three characters "..." when the value was cut; a sample
\* value holds at most 100 characters, followed by "..." when it was cut.
C11_WithinCapsPlusEllipsis ==
    \A x \in ResultsSoFar :
        /\ \A s \in DisplayValuesOf(x[2]) : WithinOrCut(s, 50)
        /\ \A s \in SampleStringsOf(x[2]) : WithinOrCut(s, 100)

\* a cut display value and a cut sample value among the tables read
C11_Witness ==
    /\ \E x \in ResultsSoFar : \E s \in DisplayValuesOf(x[2]) : Len(s) = 53
    /\ \E x \in ResultsSoFar : \E s \in SampleStringsOf(x[2]) : Len(s) = 103

\* the positions of the findings that satisfy a test
Where(results, Test(_)) == {i \in 1..Len(results) : Test(results[i])}

\* the sensitive-data findings about table r of database d
FindingsOfTable(d, r) ==
    LET About(a) == /\ a.risk_type = "sensitive_info"
                    /\ a.check_item = databases_info[d].database
                    /\ a.table = r.name
    IN  Where(audit_results, About)

\* C7: exactly one sensitive-data finding, of severity high, with the owning
\* database as subject and the table's row count as affected-record count,
\* for every table whose verdict is "yes", and none for any other table.
C7_OneFindingPerConfirmedTable ==
    au_pc = "done" =>
        \A d \in 1..Len(databases_info) : \A k \in 1..Len(databases_info[d].table_info) :
            LET r == databases_info[d].table_info[k]
                F == FindingsOfTable(d, r)
            IN  IF r.confirmed = "yes"
                THEN /\ Cardinality(F) = 1
                     /\ \A i \in F : /\ audit_results[i].risk_level = "high"
                                     /\ audit_results[i].total = Count(r.total_count)
                ELSE F = {}

\* a run with a confirmed table in the second database and, in the same
\* database, a table that has a field-name match but is not confirmed
C7_Witness ==
    /\ au_pc = "done"
    /\ Len(databases_info) = 2
    /\ \E k1, k2 \in 1..Len(databases_info[2].table_info) :
          /\ databases_info[2].table_info[k1].confirmed = "yes"
          /\ FindingsOfTable(2, databases_info[2].table_info[k1]) # {}
          /\ databases_info[2].table_info[k2].confirmed = "no"
          /\ databases_info[2].table_info[k2].sensitive_info.kind = "object"
          /\ Len(json_loads(databases_info[2].table_info[k2].sensitive_info)) > 0

\* the eight high-risk privileges: super, file, shutdown, reload, process,
\* grant, replication-slave, replication-client
EightHighRisk ==
    {"SUPER_priv", "FILE_priv", "SHUTDOWN_priv", "RELOAD_priv", "PROCESS_priv",
     "GRANT_priv", "REPL_SLAVE_priv", "REPL_CLIENT_priv"}

HighRiskHeld(u) == {p \in EightHighRisk : users[u][p] = "yes"}

\* the high-risk-privilege findings about user u
HighRiskFindingsOf(u) ==
    LET About(a) == /\ a.sensitive_type = <<"database_privileges">>
                    /\ a.description.user = users[u]["User"]
                    /\ a.description.host = users[u]["Host"]
    IN  Where(audit_results, About)

\* the wildcard-host findings about user u
WildcardFindingsOf(u) ==
    LET About(a) == /\ a.sensitive_type = <<"host_privileges">>
                    /\ a.description.user = users[u]["User"]
    IN  Where(audit_results, About)

\* C8: exactly one high-risk-privilege finding for a user who holds at
\* least one of the eight high-risk privileges, whose detection value is the
\* number of those the user holds, and none for any other user.
C8_OneHighRiskFindingPerUser ==
    au_pc = "done" =>
        \A u \in 1..Len(users) :
            IF HighRiskHeld(u) # {}
            THEN /\ Cardinality(HighRiskFindingsOf(u)) = 1
                 /\ \A i \in HighRiskFindingsOf(u) :
                       audit_results[i].detect.count = Cardinality(HighRiskHeld(u))
            ELSE HighRiskFindingsOf(u) = {}

\* a user with several high-risk privileges and a user with none
C8_Witness ==
    /\ au_pc = "done"
    /\ \E u, v \in 1..Len(users) :
          /\ Cardinality(HighRiskHeld(u)) >= 2
          /\ HighRiskFindingsOf(u) # {}
          /\ HighRiskHeld(v) = {}
          /\ HighRiskFindingsOf(v) = {}

\* C9: a high-risk-privilege finding has severity high if and only if the
\* user holds the super privilege, and severity medium otherwise.
C9_HighIffSuper ==
    au_pc = "done" =>
        \A u \in 1..Len(users) : \A i \in HighRiskFindingsOf(u) :
            /\ (audit_results[i].risk_level = "high") <=> (users[u]["SUPER_priv"] = "yes")
            /\ audit_results[i].risk_level # "high" => audit_results[i].risk_level = "medium"

\* a finding of each severity in one report
C9_Witness ==
    /\ au_pc = "done"
    /\ \E u, v \in 1..Len(users) :
          /\ \E i \in HighRiskFindingsOf(u) : audit_results[i].risk_level = "high"
          /\ \E i \in HighRiskFindingsOf(v) : audit_results[i].risk_level = "medium"

WildcardWithData(u) ==
    /\ users[u]["Host"] = "%"
    /\ \E p \in {"SELECT_priv", "INSERT_priv", "UPDATE_priv", "DELETE_priv"} : users[u][p] = "yes"

\* C10: one separate medium-severity wildcard-host finding for each user
\* whose host is % and who holds select, insert, update or delete, whether
\* or not the user also has a high-risk-privilege finding, and none for any
\* other user.
C10_WildcardFindingPerUser ==
    au_pc = "done" =>
        \A u \in 1..Len(users) :
            IF WildcardWithData(u)
            THEN /\ Cardinality(WildcardFindingsOf(u)) = 1
                 /\ \A i \in WildcardFindingsOf(u) : audit_results[i].risk_level = "medium"
                 /\ WildcardFindingsOf(u) \cap HighRiskFindingsOf(u) = {}
            ELSE WildcardFindingsOf(u) = {}

\* a user with both findings, and a wildcard-host user without data privileges
C10_Witness ==
    /\ au_pc = "done"
    /\ \E u, v \in 1..Len(users) :
          /\ WildcardFindingsOf(u) # {}
          /\ HighRiskFindingsOf(u) # {}
          /\ users[v]["Host"] = "%"
          /\ WildcardFindingsOf(v) = {}

\* severity rank: high 1, medium 2, low 3, any other severity last
SeverityRank(level) ==
    IF level = "high" THEN 1 ELSE IF level = "medium" THEN 2 ELSE IF level = "low" THEN 3 ELSE 4

\* the order of the risk-category names: '敏感信息' before '权限风险'
CategoryRank(risk_type) == IF risk_type = "sensitive_info" THEN 1 ELSE 2

SameKey(a, b) ==
    /\ SeverityRank(a.risk_level) = SeverityRank(b.risk_level)
    /\ CategoryRank(a.risk_type) = CategoryRank(b.risk_type)

InOrder(a, b) ==
    \/ SeverityRank(a.risk_level) < SeverityRank(b.risk_level)
    \/ /\ SeverityRank(a.risk_level) = SeverityRank(b.risk_level)
       /\ CategoryRank(a.risk_type) <= CategoryRank(b.risk_type)

\* the findings of q that have the key of x, in their order in q
KeyClass(q, x) ==
    LET Same(a) == SameKey(a, x)
    IN  SelectSeq(q, Same)

\* C6: the returned findings are ordered by severity rank, then by
\* risk-category name, and the findings of equal severity and category keep
\* the order in which they were generated.
C6_SortedAndStable ==
    au_pc = "done" =>
        /\ Len(audit_results) = Len(generated)
        /\ \A i, j \in 1..Len(audit_results) : i < j => InOrder(audit_results[i], audit_results[j])
        /\ \A i \in 1..Len(generated) :
              KeyClass(audit_results, generated[i]) = KeyClass(generated, generated[i])

\* a report the sort had to reorder, with two distinct findings of equal key
C6_Witness ==
    /\ au_pc = "done"
    /\ audit_results # generated
    /\ \E i, j \in 1..Len(audit_results) :
          /\ i < j
          /\ SameKey(audit_results[i], audit_results[j])
          /\ audit_results[i] # audit_results[j]

----------------------------------------------------------------------------
(* Properties of parse_datasource_config and of audit_multiple_datasources *)

\* the lines that are well formed: five or more fields, the third an integer
WellFormedLines == {"ok1", "ok2"}

\* the lines that are not blank, do not start with # and have five or more
\* comma-separated fields
FiveFieldLines == {"ok1", "ok2", "bad_port", "empty_port"}

\* the datasource a well-formed line stands for
ExpectedDatasource(name) ==
    IF name = "ok1"
    THEN [datasource_name |-> <<"a">>, ip |-> <<"h">>, port |-> 1,
          username |-> <<"u">>, password |-> <<"p">>]
    ELSE [datasource_name |-> <<"b">>, ip |-> <<"h">>, port |-> 22,
          username |-> <<"u">>, password |-> <<"p">>]

\* the datasources of the well-formed lines, in the order of the text
ExpectedDatasources ==
    LET WellFormed(name) == name \in WellFormedLines
        kept == SelectSeq(config_lines, WellFormed)
    IN  [k \in 1..Len(kept) |-> ExpectedDatasource(kept[k])]

\* the lines of the text that have five or more fields, in order
QualifyingLines ==
    LET Qualifies(name) == name \in FiveFieldLines
    IN  SelectSeq(config_lines, Qualifies)

\* C15: parse_datasource_config returns without raising for every
\* configuration text, skipping each malformed line and returning every
\* well-formed line of the text.
C15_MalformedLineNeverFatal ==
    md_pc # "start" => (md_pc # "raised" /\ datasources = ExpectedDatasources)

\* C16: parse_datasource_config returns, in input order, exactly one
\* datasource per line that is non-blank, does not start with # and has at
\* least 5 comma-separated fields, the first five trimmed fields being
\* name, host, integer port, username and password.
C16_OneDatasourcePerFiveFieldLine ==
    md_pc # "start" =>
        /\ Len(datasources) = Len(QualifyingLines)
        /\ \A k \in 1..Len(datasources) :
              /\ datasources[k].port \in Nat
              /\ QualifyingLines[k] \in WellFormedLines
                    => datasources[k] = ExpectedDatasource(QualifyingLines[k])

\* the report paths of the datasources audited so far at the positions idx
PathsOf(idx) ==
    Pick([i \in 1..Len(md_servers) |-> excel_path(datasources[i].datasource_name)], idx, 1)

\* the datasources for which nothing failed
NothingFailed ==
    {i \in 1..Len(md_servers) :
        /\ md_servers[i].connect = "ok"
        /\ md_servers[i].enumeration = "ok"
        /\ md_servers[i].report = "ok"}

\* the datasources whose connection and report generation succeeded
ConnectedAndWritten ==
    {i \in 1..Len(md_servers) : md_servers[i].connect = "ok" /\ md_servers[i].report = "ok"}

\* C17 as stated: the parsed datasources are audited one after another in
\* configuration order, a datasource whose connection, enumeration or report
\* generation fails is skipped without raising and without stopping the
\* later ones, and the returned list holds exactly the report paths of the
\* datasources that succeeded, in order.
C17_FailedDatasourceSkipped ==
    /\ md_pc = "raised" => md_servers = <<>>
    /\ md_pc = "returned" => Len(md_servers) = Len(datasources)
    /\ md_pc \in {"loop", "returned"} => excel_files = PathsOf(NothingFailed)

\* C17 amended: the same, a datasource being skipped when its connection or
\* its report generation fails; a failed enumeration query does not skip it.
C17_UnconnectedOrUnwrittenSkipped ==
    /\ md_pc = "raised" => md_servers = <<>>
    /\ md_pc = "returned" => Len(md_servers) = Len(datasources)
    /\ md_pc \in {"loop", "returned"} => excel_files = PathsOf(ConnectedAndWritten)

\* a returned run in which a refused connection and a failed report write
\* are followed by a datasource that yields a report
C17_Witness ==
    /\ md_pc = "returned"
    /\ \E i, j, k \in 1..Len(md_servers) :
          /\ i < k /\ j < k
          /\ md_servers[i].connect = "refused"
          /\ md_servers[j].connect = "ok" /\ md_servers[j].report = "raises"
          /\ k \in ConnectedAndWritten
    /\ excel_files # <<>>

----------------------------------------------------------------------------
(* Properties of the table loop of get_table_info and of get_databases *)

\* a result that is not an error marker and carries the row count of the table
ReportedNormally(result, t) ==
    /\ result.column_values.kind = "object"
    /\ result.sensitive_info.kind = "object"
    /\ result.total_count = t.total_count

\* C18: get_table_info returns exactly one result per table, in listing
\* order; a table whose DESCRIBE, COUNT or sampling fails is reported as an
\* error marker with verdict "no", and every other table is reported
\* normally.
C18_PerTableIsolation ==
    /\ Len(table_info) = Len(server_tables)
    /\ \A k \in 1..Len(table_info) : table_info[k].name = <<"t", k>>
    /\ \A x \in ResultsSoFar :
          IF x[3].fail # "none"
          THEN x[2].sensitive_info = JsonError /\ x[2].confirmed = "no"
          ELSE ReportedNormally(x[2], x[3])

\* the tables with zero rows and at least one column
EmptyTables == {x \in ResultsSoFar : x[3].fail = "none" /\ x[3].total_count = 0 /\ Len(x[3].columns) > 0}

\* column i of the table has a keyword of an enabled category in its name
KeywordColumn(t, i, rule) ==
    /\ rule.name \in load_sensitive_rules.settings.enabled_rules
    /\ FieldMatch(load_sensitive_rules.settings, rule, t.columns[i])

\* C19: for a table with zero rows and at least one column, get_table_info
\* reports every column mapped to null, a classification made of the
\* field-name matches only, each with null value and value_match false,
\* total row count 0 and verdict "no".
C19_EmptyTableFieldNamesOnly ==
    \A x \in EmptyTables :
        LET result == x[2]
            t == x[3]
            rules == load_sensitive_rules.sensitive_rules
        IN  /\ result.column_values.kind = "object"
            /\ Len(result.column_values.val) = Len(t.columns)
            /\ \A i \in 1..Len(t.columns) :
                  /\ result.column_values.val[i].column = t.columns[i]
                  /\ result.column_values.val[i].value = NoneValue
            /\ result.sensitive_info.kind = "object"
            /\ \A cm \in MatchesOf(json_loads(result.sensitive_info)) :
                  /\ cm[2].value = NoneValue
                  /\ cm[2].field_match
                  /\ ~cm[2].value_match
                  /\ \E i \in 1..Len(t.columns), j \in 1..Len(rules) :
                        /\ cm[1] = rules[j].name
                        /\ cm[2].column = t.columns[i]
                        /\ KeywordColumn(t, i, rules[j])
            /\ \A i \in 1..Len(t.columns), j \in 1..Len(rules) :
                  KeywordColumn(t, i, rules[j]) =>
                      \E cm \in MatchesOf(json_loads(result.sensitive_info)) :
                          cm[1] = rules[j].name /\ cm[2].column = t.columns[i]
            /\ result.total_count = 0
            /\ result.confirmed = "no"

\* an empty table with a field-name match, read after a confirmed table
C19_Witness ==
    \E x, y \in ResultsSoFar :
        /\ x \in EmptyTables
        /\ json_loads(x[2].sensitive_info) # <<>>
        /\ y[1] = x[1]
        /\ y[2].name[2] < x[2].name[2]
        /\ y[2].confirmed = "yes"

\* the names of the answer that are none of information_schema,
\* performance_schema, mysql, sys, in the order of the server
RECURSIVE BusinessNames(_, _)
BusinessNames(names, k) ==
    IF k > Len(names) THEN <<>>
    ELSE (IF names[k] \in {"information_schema", "performance_schema", "mysql", "sys"}
          THEN <<>> ELSE <<names[k]>>) \o BusinessNames(names, k + 1)

\* C20: get_databases returns exactly the names reported by the server that
\* are not system databases, in server order, and on a query failure the
\* names collected so far (none).
C20_BusinessDatabasesInOrder ==
    au_pc \notin {"users", "databases"} =>
        databases = IF show_databases.fail = "none"
                    THEN BusinessNames(show_databases.names, 1)
                    ELSE <<>>

\* an answer that lists sys and performance_schema around a business database
C20_Witness ==
    /\ au_pc \notin {"users", "databases"}
    /\ show_databases.fail = "none"
    /\ \E i, j \in 1..Len(show_databases.names) :
          /\ i < j
          /\ show_databases.names[i] = "sys"
          /\ show_databases.names[j] \notin SystemDatabases
    /\ databases # <<>>

----------------------------------------------------------------------------
(* Properties of get_database_users *)

\* C21: get_database_users returns one record per user row, every
\* privilege flag 'Y' rendered as "yes" and every 'N' as "no", the username
\* and the host being returned exactly as the server reported them.
C21_FlagsRenderedNamesKept ==
    au_pc # "users" =>
        /\ Len(users) = Len(user_rows)
        /\ \A i \in 1..Len(users) :
              /\ \A c \in PrivColumns :
                    /\ user_rows[i][c] = "Y" => users[i][c] = "yes"
                    /\ user_rows[i][c] = "N" => users[i][c] = "no"
              /\ users[i]["User"] = user_rows[i]["User"]
              /\ users[i]["Host"] = user_rows[i]["Host"]

----------------------------------------------------------------------------
(* Properties of the classifier under a changing rule file, of the length  *)
(* limit, of malformed patterns and of the field-name match                *)

\* C23: confirm_sensitive_data validates against the rule set current at
\* the moment it is called: a category of the classification that is no
\* longer in the rule set is ignored, and the verdict is "yes" exactly when
\* a recorded value matches a pattern its category has in the rule set
\* loaded at confirmation time.
C23_ConfirmUsesCurrentRules ==
    cl_pc = "confirmed" =>
        LET present == {cm \in MatchesOf(cl_info) : cm[1] \in DefinedCategories}
        IN  (cl_confirmed = "yes") <=> (\E cm \in present : Rematches(cm))

\* a classification made under file A, with a category the default rules do
\* not have, confirmed after the file was removed: the verdict the rules of
\* the classification would give is "yes", the verdict returned is "no"
C23_Witness ==
    /\ cl_pc = "confirmed"
    /\ cl_rules_file = "A"
    /\ rules_file = "absent"
    /\ \E cm \in MatchesOf(cl_info) : cm[1] \notin DefinedCategories
    /\ Confirm(RulesFileA, cl_info) = "yes"
    /\ cl_confirmed = "no"

\* the trimmed value of column i
Trimmed(i) == strip(str(cl_record[i]))

\* rule j is enabled
Enabled(j) ==
    load_sensitive_rules.sensitive_rules[j].name \in load_sensitive_rules.settings.enabled_rules

\* the value of column i is excluded as test data
TestDataValue(i) ==
    /\ load_sensitive_rules.settings.exclude_test_data
    /\ HasTestMarker(i)

\* C24: a non-null value whose trimmed length exceeds the configured
\* maximum leaves no Column Match for its column in any category, also when
\* the column name contains a keyword; a value of exactly the maximum length
\* is not rejected.
C24_OverlongValueRejected ==
    (cl_pc # "idle" /\ Aligned) =>
        \A i \in 1..Len(cl_columns), j \in 1..Len(load_sensitive_rules.sensitive_rules) :
            (Enabled(j) /\ cl_record[i].type # "None") =>
                /\ Len(Trimmed(i)) > load_sensitive_rules.settings.max_field_length
                      => RecordedFor(i, j) = {}
                /\ (/\ Len(Trimmed(i)) = load_sensitive_rules.settings.max_field_length
                    /\ ~TestDataValue(i)
                    /\ FieldSignal(i, j) \/ ValueSignal(i, j)) => RecordedFor(i, j) # {}

\* an overlong value in a column whose name has a keyword, dropped, next to
\* a value of exactly the maximum length, recorded
C24_Witness ==
    /\ cl_pc = "identified"
    /\ Aligned
    /\ \E i, k \in 1..Len(cl_columns), j \in 1..Len(load_sensitive_rules.sensitive_rules) :
          /\ Enabled(j)
          /\ cl_record[i].type # "None" /\ cl_record[k].type # "None"
          /\ Len(Trimmed(i)) > load_sensitive_rules.settings.max_field_length
          /\ FieldSignal(i, j)
          /\ RecordedFor(i, j) = {}
          /\ Len(Trimmed(k)) = load_sensitive_rules.settings.max_field_length
          /\ RecordedFor(k, j) # {}

\* the loaded rule set holds a malformed pattern
SomeMalformedPattern ==
    \E j \in 1..Len(load_sensitive_rules.sensitive_rules) :
        \E k \in 1..Len(load_sensitive_rules.sensitive_rules[j].regex_patterns) :
            ~load_sensitive_rules.sensitive_rules[j].regex_patterns[k].ok

\* a well-formed pattern of rule j matches the trimmed value of column i
WellFormedPatternMatches(i, j) ==
    LET patterns == load_sensitive_rules.sensitive_rules[j].regex_patterns
    IN  /\ cl_record[i].type # "None"
        /\ \E k \in 1..Len(patterns) : patterns[k].ok /\ re_match(patterns[k], Trimmed(i))

\* C25: a malformed pattern is skipped without failing: under a rule set
\* that holds one, a value that is not rejected and matches a well-formed
\* pattern of an enabled category is recorded with value_match true, for
\* every category and column, and the classification is confirmed.
C25_MalformedPatternSkipped ==
    (cl_pc # "idle" /\ Aligned /\ SomeMalformedPattern) =>
        \A i \in 1..Len(cl_columns), j \in 1..Len(load_sensitive_rules.sensitive_rules) :
            (Enabled(j) /\ WellFormedPatternMatches(i, j) /\ ~RejectedValue(i)) =>
                /\ \E cm \in RecordedFor(i, j) : cm[2].value_match
                /\ cl_pc = "confirmed" => cl_confirmed = "yes"

\* some keyword of rule j is a substring of the name of column i, the case
\* being folded unless the setting case_sensitive is on
KeywordInName(i, j) ==
    LET keywords == load_sensitive_rules.sensitive_rules[j].field_keywords
    IN  \E k \in 1..Len(keywords) :
            IF load_sensitive_rules.settings.case_sensitive
            THEN contains(keywords[k], cl_columns[i])
            ELSE contains(lower(keywords[k]), lower(cl_columns[i]))

\* C26: for every recorded Column Match, field_match is true exactly when a
\* keyword of the category is a substring of the column name, without
\* regard to case when case_sensitive is off and in exact case when it is
\* on, whatever the sampled value.
C26_FieldMatchIffKeywordInName ==
    (cl_pc # "idle" /\ Aligned) =>
        \A i \in 1..Len(cl_columns), j \in 1..Len(load_sensitive_rules.sensitive_rules) :
            \A cm \in RecordedFor(i, j) : cm[2].field_match <=> KeywordInName(i, j)

\* under a case-sensitive rule set, a column named in upper case recorded
\* by its value only, next to the same name in lower case recorded by name
C26_Witness ==
    /\ cl_pc = "identified"
    /\ Aligned
    /\ load_sensitive_rules.settings.case_sensitive
    /\ \E i, k \in 1..Len(cl_columns), j \in 1..Len(load_sensitive_rules.sensitive_rules) :
          /\ lower(cl_columns[i]) = cl_columns[k]
          /\ i # k
          /\ \E cm \in RecordedFor(i, j) : ~cm[2].field_match
          /\ \E cm \in RecordedFor(k, j) : cm[2].field_match

----------------------------------------------------------------------------
(* Properties of the field summary and of the detection values of a finding *)

\* the sensitive-data findings with the table result they were made from
FindingsWithTable ==
    UNION {UNION {{<<audit_results[i], databases_info[d].table_info[k]>> :
                      i \in FindingsOfTable(d, databases_info[d].table_info[k])} :
                  k \in 1..Len(databases_info[d].table_info)} :
           d \in 1..Len(databases_info)}

\* C27 as stated: the field summary shows the first 3 labels at most; with
\* more than 3 (column, category) pairs the suffix names the number of
\* labels that are not shown, and with 3 or fewer there is no suffix.
C27_SuffixCountsHiddenLabels ==
    au_pc = "done" =>
        \A x \in FindingsWithTable :
            LET labels == sensitive_fields(json_loads(x[2].sensitive_info))
            IN  IF Len(labels) > 3
                THEN /\ x[1].fields.shown = SubSeq(labels, 1, 3)
                     /\ x[1].fields.total = Len(labels) - 3
                ELSE /\ x[1].fields.shown = labels
                     /\ x[1].fields.total = 0

\* C27 amended: the field summary shows the first 3 labels at most; with
\* more than 3 (column, category) pairs the suffix names the number of all
\* labels of the table, shown or not, and with 3 or fewer there is no
\* suffix.
C27_SuffixCountsAllLabels ==
    au_pc = "done" =>
        \A x \in FindingsWithTable :
            LET labels == sensitive_fields(json_loads(x[2].sensitive_info))
            IN  IF Len(labels) > 3
                THEN /\ x[1].fields.shown = SubSeq(labels, 1, 3)
                     /\ x[1].fields.total = Len(labels)
                ELSE /\ x[1].fields.shown = labels
                     /\ x[1].fields.total = 0

\* a finding about a table with four labels, and one about a table with
\* fewer
C27_Witness ==
    /\ au_pc = "done"
    /\ \E x \in FindingsWithTable :
          /\ Len(sensitive_fields(json_loads(x[2].sensitive_info))) = 4
          /\ Len(x[1].fields.shown) = 3
    /\ \E x \in FindingsWithTable :
          /\ Len(sensitive_fields(json_loads(x[2].sensitive_info))) \in 1..3
          /\ x[1].fields.total = 0

\* the values of the Column Matches of a classification that are neither
\* null nor empty, in the order of the classification
RECURSIVE NonEmptyValues(_, _, _)
NonEmptyValues(info, c, f) ==
    IF c > Len(info) THEN <<>>
    ELSE IF f > Len(info[c].fields) THEN NonEmptyValues(info, c + 1, 1)
    ELSE LET v == info[c].fields[f].value
         IN  (IF v.type # "None" /\ str(v) # <<>> THEN <<str(v)>> ELSE <<>>)
             \o NonEmptyValues(info, c, f + 1)

\* s is v when v has at most 10 characters, and otherwise the first 10
\* characters of v followed by "..."
CappedAtTen(s, v) ==
    IF Len(v) <= 10 THEN s = v ELSE s = SubSeq(v, 1, 10) \o <<".", ".", ".">>

\* C28: the detection values of a sensitive-data finding are the first 2,
\* at most, of the non-empty values of the table's Column Matches in
\* classification order, each capped at 10 characters with an ellipsis.
C28_TwoSamplesCappedAtTen ==
    au_pc = "done" =>
        \A x \in FindingsWithTable :
            LET values == NonEmptyValues(json_loads(x[2].sensitive_info), 1, 1)
                samples == x[1].detect.samples
            IN  /\ Len(samples) <= 2
                /\ Len(samples) = IF Len(values) > 2 THEN 2 ELSE Len(values)
                /\ \A k \in 1..Len(samples) : CappedAtTen(samples[k], values[k])

\* a finding about a table with more than two non-empty values and a null
\* one before the second of them: the first sample is cut, the second is
\* the value that follows the null one
C28_Witness ==
    /\ au_pc = "done"
    /\ \E x \in FindingsWithTable :
          LET info == json_loads(x[2].sensitive_info)
              samples == x[1].detect.samples
          IN  /\ Len(NonEmptyValues(info, 1, 1)) > 2
              /\ Len(samples) = 2
              /\ Len(samples[1]) = 13
              /\ Len(samples[2]) < 10
              /\ \E cm \in MatchesOf(info) : cm[2].value.type = "None"

----------------------------------------------------------------------------
(* Properties of the locals of get_table_info *)

\* the tables read so far whose count is positive and whose sample fetch
\* returned no row
UnsampledTables ==
    {x \in ResultsSoFar : /\ x[3].fail = "none"
                          /\ x[3].total_count > 0
                          /\ x[3].record = <<>>}

\* C29: a table whose row count is positive but whose sample fetch returns
\* no row is never reported with the verdict "yes" nor with a Column Match
\* that holds a value: no value was sampled from it, so that such a match
\* or verdict can only be that of a table processed earlier.
C29_NoCarryOverFromEarlierTable ==
    \A x \in UnsampledTables :
        /\ x[2].confirmed # "yes"
        /\ x[2].sensitive_info.kind = "object" =>
              \A cm \in MatchesOf(json_loads(x[2].sensitive_info)) : cm[2].value.type = "None"

----------------------------------------------------------------------------
(* Properties of App.run *)

\* C22: App.run never raises for an absent, empty or unrecognised argument
\* list: with no arguments it shows help and returns without calling the
\* parser, with arguments the parser rejects (among them every list that
\* does not begin with the command) it returns normally, and in neither
\* case is an audit started.
C22_NoArgumentsOrRejectedReturns ==
    app_pc # "start" =>
        /\ app_args = <<>> =>
              /\ app_pc = "returned"
              /\ app_help
              /\ app_parsed = NotCalled
              /\ ~app_audit
        /\ (app_args # <<>> /\ "raised" \in DOMAIN parse_args(app_args)) =>
              /\ app_pc = "returned"
              /\ ~app_help
              /\ ~app_audit
        /\ (app_args # <<>> /\ app_args[1] # "audit") =>
              /\ app_pc = "returned"
              /\ ~app_audit

\* a run on two words none of which is the command, as in the test of the
\* repository
C22_Witness ==
    /\ app_pc = "returned"
    /\ app_args = <<"v", "v">>
    /\ "raised" \in DOMAIN app_parsed
    /\ ~app_audit

----------------------------------------------------------------------------
(* Properties of the connections of audit_datasource *)

\* the datasources whose call of audit_datasource has returned
AuditsReturned ==
    IF md_pc = "try" THEN 1..(Len(connections) - 1) ELSE 1..Len(connections)

\* the connections that are open
OpenConnections == {i \in 1..Len(connections) : connections[i].open}

\* C30: a connection opened by audit_datasource has been closed exactly
\* once when audit_datasource returns, whether the enumeration failed, the
\* report generation raised or the report was written; a datasource that
\* could not be connected to has nothing closed; and
\* audit_multiple_datasources never holds more than one open connection.
C30_ClosedExactlyOnce ==
    /\ Len(connections) = Len(md_servers)
    /\ \A i \in AuditsReturned :
          /\ ~connections[i].open
          /\ connections[i].closes = IF md_servers[i].connect = "ok" THEN 1 ELSE 0
    /\ Cardinality(OpenConnections) <= 1
    /\ md_pc \in {"start", "loop", "returned", "raised"} => OpenConnections = {}

\* a returned run over three connected datasources: one whose enumeration
\* failed, one whose report generation raised and one whose report was
\* written, each closed once
C30_Witness ==
    /\ md_pc = "returned"
    /\ Len(connections) = 3
    /\ \A i \in 1..3 : md_servers[i].connect = "ok" /\ connections[i].closes = 1
    /\ md_servers[1].enumeration = "fails" /\ md_servers[1].report = "ok"
    /\ md_servers[2].enumeration = "ok" /\ md_servers[2].report = "raises"
    /\ md_servers[3].enumeration = "ok" /\ md_servers[3].report = "ok"
    /\ Len(excel_files) = 2

====
